---- MODULE Spec2Model ----
(***************************************************************************)
(* bazel-chatviz: the upload lifecycle (uploader service), the lifecycle   *)
(* store (redis records) and the Celery task process_bep_file that turns   *)
(* a raw BEP object of the bucket into three artifacts; and the two BEP    *)
(* parser classes (parser service, backend), each as an object that takes  *)
(* calls (ParserSpec).                                                     *)
(*                                                                         *)
(* Strings of the program that are built by concatenation (storage keys)   *)
(* are tuples of their parts, and "+" on them is \o.  Optional fields are  *)
(* None == <<>> or Some(v) == <<v>>.                                       *)
(***************************************************************************)
EXTENDS Integers, Sequences, FiniteSets, Bags, TLC

VARIABLES
    records,    \* redis: file_id -> UploadRecord            (models/uploads.py)
    s3,         \* the bucket: key -> body                   (core/s3.py, tasks.py)
    queue,      \* the broker: the bag of task messages waiting for a worker
    running,    \* the worker pool: the bag of attempts in progress, each with its place
    sent,       \* per file_id, the number of tasks the uploader has sent for it
    bep,        \* a BEPParser object and the last call made on it (bep_parser.py, core/parser.py)
    calls       \* calls of update_upload_status taken command by command (models/uploads.py)

\* the stores of the upload pipeline
pipeline == <<records, s3, queue, running, sent>>
vars == <<records, s3, queue, running, sent, bep, calls>>

----------------------------------------------------------------------------
(* Bounds of the model *)

\* number of worker processes of the pool (attempts that run at once)
NumWorkers == 2
\* number of /upload/complete requests accepted (tasks sent) in one behaviour
MaxTasks == 2
\* number of events given to one parser object by calls of process_event
MaxEvents == 3
\* number of lines of a stream given to parse_stream or parse_file
MaxLines == 3
\* the calls of one exporter made in a row
MaxCalls == 2
\* the calls of update_upload_status on one record, taken command by command
MaxUpdates == 3

(* Program constants *)

\* @app.task(..., max_retries=1, ...)
max_retries == 1
\* init_upload: max_size = 20_000_000
max_size == 20000000

Files == {"f1", "f2"}

\* Raw streams a client can upload: two that parse and export, and one on
\* which the parse/export code raises a non-storage exception.
Contents == {"bepOk", "bepOk2", "bepBad"}
\* the raw object of a content: a stream of two lines
Body(c) == <<c, "last line">>
Sizes == {1024, max_size + 1}
ContentTypes == {"application/json", "application/octet-stream", "text/plain"}

None == <<>>
Some(v) == <<v>>

\* class UploadStatus(str, Enum)
UPLOADING == "uploading"
PROCESSING == "processing"
COMPLETED == "completed"
FAILED == "failed"
UploadStatus == {UPLOADING, PROCESSING, COMPLETED, FAILED}

ArtifactNames == {"summary.json", "graph.json", "resource-usage.json"}

\* str(exc) of the exceptions the task can see
GetObjectError == "ClientError: get_object"
ReadError == "ResponseStreamingError: read"
PutObjectError == "ClientError: put_object"
FatalError == "TypeError: export failed"

----------------------------------------------------------------------------
(* Keys *)

\* init_upload: s3_key = f"bep-files/{file_id}.json"
RawKey(file_id) == <<"bep-files/", file_id, ".json">>

\* process_bep_file: base_key = f"processed/{file_id}/"
\* (base_key_shared: the prefix built without the file_id)
base_key_shared(file_id) == <<"processed/">>
base_key(file_id) == <<"processed/", file_id, "/">>

\* object_exists: head_object succeeds, or answers 404
\* (object_exists_always: the 404 of head_object taken for an answer)
object_exists_always(key) == TRUE
object_exists(key) == key \in DOMAIN s3

----------------------------------------------------------------------------
(* The lifecycle store *)

\* @dataclass UploadRecord, as create_upload_record builds it.  The fields
\* original_filename, content_type, max_size and created_at are written once
\* and never read by the operations below; completed_at keeps only whether
\* it is set.
UploadRecord(file_id, s3_key) ==
    [file_id |-> file_id, s3_key |-> s3_key, status |-> UPLOADING,
     completed_at |-> None, error_message |-> None, output_json_url |-> None]

\* Python truth of an Optional[str] argument
Truthy(opt) == opt # None /\ opt # Some("")

\* update_upload_status: the record store after the call
\* (update_upload_status_SharedKey: _upload_key without the file_id, one
\* store entry for the records of all files)
update_upload_status_SharedKey(recs, file_id, status, error_message, output_location) ==
    IF file_id \notin DOMAIN recs THEN recs
    ELSE [f \in DOMAIN recs |->
            [recs[f] EXCEPT !.status = status,
                            !.completed_at = IF status \in {COMPLETED, FAILED}
                                             THEN Some("utcnow") ELSE @,
                            !.error_message = IF Truthy(error_message)
                                              THEN error_message ELSE @,
                            !.output_json_url = IF Truthy(output_location)
                                                THEN output_location ELSE @]]
update_upload_status(recs, file_id, status, error_message, output_location) ==
    IF file_id \notin DOMAIN recs THEN recs
    ELSE [recs EXCEPT ![file_id] =
            [@ EXCEPT !.status = status,
                      !.completed_at = IF status \in {COMPLETED, FAILED}
                                       THEN Some("utcnow") ELSE @,
                      !.error_message = IF Truthy(error_message)
                                        THEN error_message ELSE @,
                      !.output_json_url = IF Truthy(output_location)
                                          THEN output_location ELSE @]]

----------------------------------------------------------------------------
(* The uploader API.  A handler is an action on the stores; the HTTP status *)
(* it answers with is an operator of the state it is called in and of what *)
(* its calls to storage and broker do, and the action takes its branch by  *)
(* that status.                                                            *)

\* uuid.uuid4().hex: an id no record has.  Ids carry no meaning, so the
\* first unused one of Files in a fixed order is taken.
FreshId == IF "f1" \notin DOMAIN records THEN "f1" ELSE "f2"

\* POST /upload/init: 413, 415 or 201
init_upload_response(size, content_type) ==
    IF size > max_size THEN 413
    ELSE IF content_type \notin {"application/json", "application/octet-stream"} THEN 415
    ELSE 201

init_upload ==
    \E size \in Sizes, content_type \in ContentTypes :
        IF init_upload_response(size, content_type) = 201
        THEN \E file_id \in Files \ DOMAIN records :
                /\ file_id = FreshId
                /\ records' = records @@ (file_id :> UploadRecord(file_id, RawKey(file_id)))
                /\ UNCHANGED <<s3, queue, running, sent, bep, calls>>
        ELSE UNCHANGED vars

\* The client posts the file to the presigned URL of its record's key.  The
\* object is written once: the raw object of a file_id does not change.
presigned_post ==
    \E file_id \in DOMAIN records, c \in Contents :
        /\ records[file_id].s3_key \notin DOMAIN s3
        /\ s3' = s3 @@ (records[file_id].s3_key :> Body(c))
        /\ UNCHANGED <<records, queue, running, sent, bep, calls>>

\* app.send_task("process_bep_file", args=[file_id, s3_key]): a new task
\* message with retries = 0.  log is history carried with the task: the
\* outcome of each earlier attempt of it.
NewTask(file_id, s3_key) ==
    [file_id |-> file_id, s3_key |-> s3_key, retries |-> 0, log |-> <<>>]

RECURSIVE Sum(_, _)
Sum(f, S) == IF S = {} THEN 0
             ELSE LET x == CHOOSE x \in S : TRUE IN f[x] + Sum(f, S \ {x})
TotalSent == Sum(sent, Files)

\* POST /upload/complete: 404 for an unknown file_id, 400 when the object is
\* not in storage, 202 when the task is sent; 500 when head_object fails with
\* a code object_exists re-raises (head_ok false) or send_task raises because
\* the broker is unreachable (send_ok false).
complete_upload_response(file_id, head_ok, send_ok) ==
    IF file_id \notin DOMAIN records THEN 404
    ELSE IF ~head_ok THEN 500
    ELSE IF ~object_exists(records[file_id].s3_key) THEN 400
    ELSE IF ~send_ok THEN 500
    ELSE 202

\* has the handler passed the object_exists check (lines 95-101)?
PassedChecks(file_id, head_ok) ==
    /\ file_id \in DOMAIN records
    /\ head_ok
    /\ object_exists(records[file_id].s3_key)

complete_upload(file_id, head_ok, send_ok) ==
    IF ~PassedChecks(file_id, head_ok)
    THEN UNCHANGED vars
    ELSE /\ records' = update_upload_status(records, file_id, PROCESSING, None, None)
         /\ IF send_ok
            THEN /\ TotalSent < MaxTasks
                 /\ queue' = queue (+) SetToBag({NewTask(file_id, records[file_id].s3_key)})
                 /\ sent' = [sent EXCEPT ![file_id] = @ + 1]
            ELSE UNCHANGED <<queue, sent>>
         /\ UNCHANGED <<s3, running, bep, calls>>

CompleteUpload ==
    \E file_id \in Files, head_ok \in BOOLEAN, send_ok \in BOOLEAN :
        complete_upload(file_id, head_ok, send_ok)

\* GET /upload/status/{file_id}: a read of the record, changing nothing; what
\* a poller is answered in the current state
get_upload_status(file_id) ==
    IF file_id \notin DOMAIN records
    THEN [code |-> 404, status |-> "", error_message |-> None]
    ELSE [code |-> 200, status |-> records[file_id].status,
          error_message |-> records[file_id].error_message]

\* GET /upload/artifacts/{file_id}: 404 for an unknown file_id, 400 unless
\* the record is COMPLETED, else the keys base + name the presigned GET URLs
\* are made for (base = record.output_json_url; base unset: str + None
\* raises, 500)
get_artifact_urls(file_id) ==
    IF file_id \notin DOMAIN records THEN [code |-> 404, keys |-> {}]
    ELSE IF records[file_id].status # COMPLETED THEN [code |-> 400, keys |-> {}]
    ELSE IF records[file_id].output_json_url = None THEN [code |-> 500, keys |-> {}]
    ELSE [code |-> 200,
          keys |-> {records[file_id].output_json_url[1] \o <<n>> : n \in ArtifactNames}]

----------------------------------------------------------------------------
(* The worker: process_bep_file(self, file_id, s3_key) *)

\* One attempt of a task in a worker process, at the start of the task body
Attempt(m) ==
    [pc |-> "get_object", file_id |-> m.file_id, s3_key |-> m.s3_key,
     retries |-> m.retries, log |-> m.log, body |-> <<>>, parser |-> <<>>]

At(a, pc) == [a EXCEPT !.pc = pc]

\* self.retry(exc=s3_err) of celery.Task: with retries left it sends the task
\* again (request.retries + 1) and raises Retry; without, it raises exc.
\* TRUE when the task is sent again.
RetryScheduled(a) == a.retries < max_retries

RetryMessage(a, outcome) ==
    [file_id |-> a.file_id, s3_key |-> a.s3_key, retries |-> a.retries + 1,
     log |-> Append(a.log, outcome)]

\* except (BotoCoreError, ClientError) as s3_err: self.retry raises in both
\* cases (Retry, or the error itself), `except Exception` catches either, and
\* the record is set FAILED before the exception leaves the task.
S3ErrorHandler(a, msg, outcome) ==
    /\ queue' = IF RetryScheduled(a) THEN queue (+) SetToBag({RetryMessage(a, outcome)})
                ELSE queue
    /\ records' = update_upload_status(records, a.file_id, FAILED, Some(msg), None)
    /\ running' = running (-) SetToBag({a})

\* except Exception as e: set FAILED with str(e) and re-raise; no retry
\* (FatalHandler_Retrying: the error handled by the storage-error clause)
FatalHandler_Retrying(a, msg) ==
    S3ErrorHandler(a, msg, "fatal")
FatalHandler(a, msg) ==
    /\ records' = update_upload_status(records, a.file_id, FAILED, Some(msg), None)
    /\ running' = running (-) SetToBag({a})
    /\ UNCHANGED queue

\* What parse_stream and the three export_* calls make of a raw stream: the
\* three documents are a function of the stream alone (a fresh BEPParser per
\* call of the task), or an exception that is no storage error.
ParseRaises(body) == body = Body("bepBad")
Export(name, body) == <<name>> \o body

\* parser = BEPParser(), a local of the call of the task: the aggregate that
\* attempt a starts from, as the stream parsed into it
\* (LocalParser_ModuleLevel: one parser object for the calls of the pool,
\* holding what another attempt at work has parsed)
LocalParser_ModuleLevel(a) ==
    IF \E b \in BagToSet(running) : b # a /\ b.parser # <<>>
    THEN (CHOOSE b \in BagToSet(running) : b # a /\ b.parser # <<>>).parser
    ELSE <<>>
LocalParser(a) == <<>>

\* parser.parse_stream(lines()): the aggregate after the lines of the body
ParsedInto(parser, body) == parser \o body

\* A free worker process takes a message off the queue and enters the task:
\* update_upload_status(file_id, UploadStatus.PROCESSING)
TaskStart ==
    /\ BagCardinality(running) < NumWorkers
    /\ \E m \in BagToSet(queue) :
        /\ queue' = queue (-) SetToBag({m})
        /\ running' = running (+) SetToBag({Attempt(m)})
        /\ records' = update_upload_status(records, m.file_id, PROCESSING, None, None)
    /\ UNCHANGED <<s3, sent, bep, calls>>

\* obj = _s3_client.get_object(Bucket, Key=s3_key); body = obj["Body"]: the
\* handle of the stream (.body: the lines it will give), or a storage error
GetObject ==
    \E a \in BagToSet(running) :
        /\ a.pc = "get_object"
        /\ \/ /\ a.s3_key \in DOMAIN s3
              /\ running' = (running (-) SetToBag({a}))
                                (+) SetToBag({[a EXCEPT !.pc = "parse_stream",
                                                        !.body = s3[a.s3_key]]})
              /\ UNCHANGED <<records, queue>>
           \/ S3ErrorHandler(a, GetObjectError, "get_error")
        /\ UNCHANGED <<s3, sent, bep, calls>>

\* body.iter_lines() raises a storage error after k lines of the stream: it
\* leaves lines() and parse_stream, whose `for` is under no try, and reaches
\* the handler of the task; the aggregate filled so far is a local of the
\* call and goes with it
\* (ReadRaises_Swallowed: the error caught around the loop, the task going
\* on to the exports with the aggregate of the k lines)
ReadRaises_Swallowed(a, k) ==
    /\ running' = (running (-) SetToBag({a}))
                      (+) SetToBag({[a EXCEPT !.pc = "put_summary",
                                              !.parser = ParsedInto(LocalParser(a),
                                                                    SubSeq(a.body, 1, k))]})
    /\ UNCHANGED <<records, queue>>
ReadRaises(a, k) == S3ErrorHandler(a, ReadError, "read_error")

\* parser = BEPParser(); parser.parse_stream(lines()); the three exports.
\* The lines are fetched as parse_stream asks for them: the stream is read
\* to its end, or a read raises part-way.
ParseAndExport ==
    \E a \in BagToSet(running) :
        /\ a.pc = "parse_stream"
        /\ \/ IF ParseRaises(a.body)
              THEN FatalHandler(a, FatalError)
              ELSE /\ running' = (running (-) SetToBag({a}))
                                     (+) SetToBag({[a EXCEPT !.pc = "put_summary",
                                                             !.parser = ParsedInto(LocalParser(a), a.body)]})
                   /\ UNCHANGED <<records, queue>>
           \/ \E k \in 0..(Len(a.body) - 1) : ReadRaises(a, k)
        /\ UNCHANGED <<s3, sent, bep, calls>>

\* _s3_client.put_object(Key = base_key + name, Body = the exported document)
\* (PutObject_ErrorSwallowed: the storage error of put_object caught and
\* logged at the call, the task going on)
PutObject_ErrorSwallowed(a, name, next) ==
    \/ /\ s3' = [k \in DOMAIN s3 \cup {base_key(a.file_id) \o <<name>>} |->
                    IF k = base_key(a.file_id) \o <<name>>
                    THEN Export(name, a.parser) ELSE s3[k]]
       /\ running' = (running (-) SetToBag({a})) (+) SetToBag({At(a, next)})
       /\ UNCHANGED <<records, queue>>
    \/ /\ running' = (running (-) SetToBag({a})) (+) SetToBag({At(a, next)})
       /\ UNCHANGED <<records, queue, s3>>
PutObject(a, name, next) ==
    \/ /\ s3' = [k \in DOMAIN s3 \cup {base_key(a.file_id) \o <<name>>} |->
                    IF k = base_key(a.file_id) \o <<name>>
                    THEN Export(name, a.parser) ELSE s3[k]]
       /\ running' = (running (-) SetToBag({a})) (+) SetToBag({At(a, next)})
       /\ UNCHANGED <<records, queue>>
    \/ /\ S3ErrorHandler(a, PutObjectError, "put_error")
       /\ UNCHANGED s3

PutSummary ==
    \E a \in BagToSet(running) :
        /\ a.pc = "put_summary"
        /\ PutObject(a, "summary.json", "put_graph")
        /\ UNCHANGED <<sent, bep, calls>>

PutGraph ==
    \E a \in BagToSet(running) :
        /\ a.pc = "put_graph"
        /\ PutObject(a, "graph.json", "put_resource_usage")
        /\ UNCHANGED <<sent, bep, calls>>

PutResourceUsage ==
    \E a \in BagToSet(running) :
        /\ a.pc = "put_resource_usage"
        /\ PutObject(a, "resource-usage.json", "set_completed")
        /\ UNCHANGED <<sent, bep, calls>>

\* update_upload_status(file_id, UploadStatus.COMPLETED, output_location=base_key)
SetCompleted ==
    \E a \in BagToSet(running) :
        /\ a.pc = "set_completed"
        /\ records' = update_upload_status(records, a.file_id, COMPLETED, None,
                                           Some(base_key(a.file_id)))
        /\ running' = running (-) SetToBag({a})
        /\ UNCHANGED <<s3, queue, sent, bep, calls>>

WorkerStep ==
    \/ TaskStart
    \/ GetObject
    \/ ParseAndExport
    \/ PutSummary
    \/ PutGraph
    \/ PutResourceUsage
    \/ SetCompleted

----------------------------------------------------------------------------
(* Values of Python, as json.loads returns them, tagged with their type.    *)
(* A str is the sequence of its characters, a list a sequence, a dict a     *)
(* function of its keys (key names are constants of the program).           *)

JNull == [t |-> "null", v |-> 0]
JBool(b) == [t |-> "bool", v |-> b]
JInt(n) == [t |-> "int", v |-> n]
JFloat(x) == [t |-> "float", v |-> x]
JStr(s) == [t |-> "str", v |-> s]
JList(l) == [t |-> "list", v |-> l]
JDict(d) == [t |-> "dict", v |-> d]

\* a == b on values that are no numbers of different types
JEq(a, b) == a.t = b.t /\ a.v = b.v

\* bool(x): the truth value of x in `if x`, `not x`, `x or y`
bool(x) ==
    CASE x.t = "null" -> FALSE
      [] x.t = "bool" -> x.v
      [] x.t \in {"int", "float"} -> x.v # 0
      [] x.t \in {"str", "list"} -> Len(x.v) > 0
      [] x.t = "dict" -> DOMAIN x.v # {}

\* x or y
Or(x, y) == IF bool(x) THEN x ELSE y

\* d.get(key, default) of a dict d
get(d, key, default) == IF key \in DOMAIN d.v THEN d.v[key] ELSE default

\* isinstance(x, (int, float)): bool is a subclass of int
IsNumber(x) == x.t \in {"int", "float", "bool"}

\* hash(x) is defined: x can be a dict key or a member of a set
Hashable(x) == x.t \notin {"list", "dict"}

\* str.lower(), on the letters the inputs use
LowerChar(c) ==
    CASE c = "P" -> "p" [] c = "A" -> "a" [] c = "S" -> "s" [] c = "E" -> "e"
      [] c = "D" -> "d" [] c = "F" -> "f" [] c = "I" -> "i" [] c = "L" -> "l"
      [] c = "O" -> "o" [] c = "K" -> "k"
      [] OTHER -> c
lower(s) == [i \in DOMAIN s |-> LowerChar(s[i])]

----------------------------------------------------------------------------
(* The aggregate: the fields of a BEPParser object.  A dict keyed by label  *)
(* is the sequence of its entries in insertion order (the order in which    *)
(* Python iterates it), each entry carrying its key as .label.              *)

\* @dataclass class Target
Target(label) ==
    [label |-> label, status |-> "unknown", kind |-> JNull, dependencies |-> {}]

\* BEPParser.__init__ of the parser service
BEPParser ==
    [events |-> <<>>, targets |-> <<>>, test_results |-> <<>>,
     action_count |-> 0, resource_series |-> <<>>]

Find(entries, label) == {i \in 1..Len(entries) : JEq(entries[i].label, label)}

\* d.get(label) or fresh: the entry under label, or the fresh one
GetOr(entries, label, fresh) ==
    IF Find(entries, label) = {} THEN fresh
    ELSE entries[CHOOSE i \in Find(entries, label) : TRUE]

\* d[entry.label] = entry: a new key goes last, a known key keeps its place
Store(entries, entry) ==
    IF Find(entries, entry.label) = {} THEN Append(entries, entry)
    ELSE [entries EXCEPT ![CHOOSE i \in Find(entries, entry.label) : TRUE] = entry]

\* A change of an attribute of a Target object reaches the dict only when the
\* object is the one the dict holds (d.get(label) returned it), not when it is
\* a fresh Target(label) that was not stored yet.
Mutate(entries, t) == IF Find(entries, t.label) = {} THEN entries ELSE Store(entries, t)

\* How a call ends: the object after it, and the exception it raised if any
Ok(p) == [p |-> p, exc |-> None]
Raise(p, e) == [p |-> p, exc |-> Some(e)]

----------------------------------------------------------------------------
(* The streaming parser: class BEPParser of the parser service              *)
(* (services/parser/src/services/bep_parser.py).  A method is an operator   *)
(* from the object (and its arguments) to the way the call ends.            *)

\* (handle_target_completed_IfUnknown: the status is set only while it is
\* "unknown", as handle_test_result sets it)
handle_target_completed_IfUnknown(p, event, id_payload) ==
    IF id_payload.t # "dict" THEN Raise(p, "AttributeError")
    ELSE LET label == get(id_payload, "label", JNull)
             details == Or(Or(get(event, "completed", JDict(<<>>)),
                              get(event, "targetCompleted", JDict(<<>>))),
                           JDict(<<>>))
         IN  IF ~bool(label) THEN Ok(p)
             ELSE IF details.t # "dict" THEN Raise(p, "AttributeError")
             ELSE IF ~Hashable(label) THEN Raise(p, "TypeError")
             ELSE LET success == bool(get(details, "success", JBool(FALSE)))
                      t == GetOr(p.targets, label, Target(label))
                  IN  Ok([p EXCEPT !.targets =
                            Store(@, IF t.status = "unknown"
                                     THEN [t EXCEPT !.status = IF success THEN "success"
                                                               ELSE "failure"]
                                     ELSE t)])

\* (handle_target_completed_Fresh: the target built anew at every event,
\* t = Target(label=label))
handle_target_completed_Fresh(p, event, id_payload) ==
    IF id_payload.t # "dict" THEN Raise(p, "AttributeError")
    ELSE LET label == get(id_payload, "label", JNull)
             details == Or(Or(get(event, "completed", JDict(<<>>)),
                              get(event, "targetCompleted", JDict(<<>>))),
                           JDict(<<>>))
         IN  IF ~bool(label) THEN Ok(p)
             ELSE IF details.t # "dict" THEN Raise(p, "AttributeError")
             ELSE IF ~Hashable(label) THEN Raise(p, "TypeError")
             ELSE LET success == bool(get(details, "success", JBool(FALSE)))
                      t == Target(label)
                  IN  Ok([p EXCEPT !.targets =
                            Store(@, [t EXCEPT !.status = IF success THEN "success"
                                                          ELSE "failure"])])

handle_target_completed(p, event, id_payload) ==
    IF id_payload.t # "dict" THEN Raise(p, "AttributeError")
    ELSE LET label == get(id_payload, "label", JNull)
             details == Or(Or(get(event, "completed", JDict(<<>>)),
                              get(event, "targetCompleted", JDict(<<>>))),
                           JDict(<<>>))
         IN  IF ~bool(label) THEN Ok(p)
             ELSE IF details.t # "dict" THEN Raise(p, "AttributeError")
             ELSE IF ~Hashable(label) THEN Raise(p, "TypeError")
             ELSE LET success == bool(get(details, "success", JBool(FALSE)))
                      t == GetOr(p.targets, label, Target(label))
                  IN  Ok([p EXCEPT !.targets =
                            Store(@, [t EXCEPT !.status = IF success THEN "success"
                                                          ELSE "failure"])])

\* the labels of the objects of a list that hold a "label" field
ObjectLabels(value) ==
    IF value.t # "list" THEN {}
    ELSE {value.v[i].v["label"] :
            i \in {j \in 1..Len(value.v) :
                     value.v[j].t = "dict" /\ "label" \in DOMAIN value.v[j].v}}

\* line 97 reads configured_payload on its own right-hand side: the name is
\* bound only when event["targetKind"] is truthy, and then to that value
handle_target_configured(p, event, id_payload) ==
    IF id_payload.t # "dict" THEN Raise(p, "AttributeError")
    ELSE LET label == get(id_payload, "label", JNull)
             t == GetOr(p.targets, label, Target(label))
             configured_payload == get(event, "targetKind", JNull)
         IN  IF ~bool(label) THEN Ok(p)
             ELSE IF ~Hashable(label) THEN Raise(p, "TypeError")
             ELSE IF ~bool(configured_payload) THEN Raise(p, "UnboundLocalError")
             ELSE IF configured_payload.t # "dict" THEN Raise(p, "AttributeError")
             ELSE LET kind == Or(get(configured_payload, "targetKind", JNull),
                                 get(configured_payload, "kind", JNull))
                      t1 == IF bool(kind) THEN [t EXCEPT !.kind = kind] ELSE t
                      deps == ObjectLabels(get(configured_payload, "deps", JNull))
                                \cup ObjectLabels(get(configured_payload, "dependencies", JNull))
                      t2 == [t1 EXCEPT !.dependencies = @ \cup deps]
                  IN  IF \E d \in deps : ~Hashable(d)
                      THEN Raise([p EXCEPT !.targets = Mutate(@, t1)], "TypeError")
                      ELSE Ok([p EXCEPT !.targets = Store(@, t2)])

\* (handle_action_Assigned: self.action_count = 1)
handle_action_Assigned(p, event) == Ok([p EXCEPT !.action_count = 1])
handle_action(p, event) == Ok([p EXCEPT !.action_count = @ + 1])

\* line 130 assigns to self.test_result[label]; the object has test_results
\* and no attribute test_result
handle_test_result(p, event, id_payload) ==
    IF id_payload.t # "dict" THEN Raise(p, "AttributeError")
    ELSE LET label == get(id_payload, "label", JNull)
             payload == get(event, "testResult", JDict(<<>>))
         IN  IF ~bool(label) THEN Ok(p)
             ELSE IF payload.t # "dict" THEN Raise(p, "AttributeError")
             ELSE IF Or(get(payload, "status", JNull), JStr(<<>>)).t # "str"
                  THEN Raise(p, "AttributeError")
             ELSE Raise(p, "AttributeError")

handle_progress(p, event) == Ok(p)

handle_build_metrics(p, event) == Ok(p)

\* get_num = lambda x: float(x) if isinstance(x, (int, float)) else None
get_num(x) ==
    IF ~IsNumber(x) THEN JNull
    ELSE IF x.t = "bool" THEN JFloat(IF x.v THEN 1 ELSE 0)
    ELSE JFloat(x.v)

\* x.get(k1) or x.get(k2) or x.get(k3)
FirstTruthy(d, k1, k2, k3) ==
    Or(Or(get(d, k1, JNull), get(d, k2, JNull)), get(d, k3, JNull))

ResourcePoint(time_ms, cpu, mem) == [time |-> time_ms, cpu |-> cpu, memory |-> mem]

maybe_extract_resource_point(p, event) ==
    LET timeMillis == get(event, "timeMillis", JNull)
        time_ms == get_num(IF IsNumber(timeMillis) THEN timeMillis
                           ELSE get(event, "timestamp", JNull))
        progress == get(event, "progress", JNull)
        ru == IF progress.t = "dict" THEN get(progress, "resourceUsage", JNull) ELSE JNull
        cpu1 == IF ru.t = "dict"
                THEN Or(JNull, get_num(FirstTruthy(ru, "cpuUsage", "cpu", "cpu_utilization")))
                ELSE JNull
        mem1 == IF ru.t = "dict"
                THEN Or(JNull, get_num(FirstTruthy(ru, "memoryUsage", "memory", "mem")))
                ELSE JNull
        bm == get(event, "buildMetrics", JNull)
        mem_metrics == IF bm.t = "dict" THEN get(bm, "memoryMetrics", JNull) ELSE JNull
        mem == IF mem_metrics.t = "dict"
               THEN Or(mem1, get_num(FirstTruthy(mem_metrics, "peak", "highWatermark", "used")))
               ELSE mem1
        timing == IF bm.t = "dict" THEN get(bm, "timingMetrics", JNull) ELSE JNull
        cpu == IF timing.t = "dict"
               THEN Or(cpu1, get_num(FirstTruthy(timing, "cpu", "utilization", "processTimeMs")))
               ELSE cpu1
    IN  IF time_ms # JNull \/ cpu # JNull \/ mem # JNull
        THEN Ok([p EXCEPT !.resource_series = Append(@, ResourcePoint(time_ms, cpu, mem))])
        ELSE Ok(p)

\* (process_event_ActionFirst: the test for an action moved to the head of
\* the chain)
process_event_ActionFirst(p, event) ==
    IF event.t # "dict" THEN Raise(p, "AttributeError")
    ELSE LET event_id == get(event, "id", JDict(<<>>))
             configured == Or(get(event_id, "configuredTarget", JNull),
                              get(event_id, "targetConfigured", JNull))
             handled ==
                IF "actionCompleted" \in DOMAIN event_id.v
                        \/ "actionExecuted" \in DOMAIN event_id.v
                THEN handle_action(p, event)
                ELSE IF "targetCompleted" \in DOMAIN event_id.v
                THEN handle_target_completed(p, event, event_id.v["targetCompleted"])
                ELSE IF "configuredTarget" \in DOMAIN event_id.v
                        \/ "targetConfigured" \in DOMAIN event_id.v
                THEN handle_target_configured(p, event, configured)
                ELSE IF "testResult" \in DOMAIN event_id.v
                THEN handle_test_result(p, event, event_id.v["testResult"])
                ELSE IF "progress" \in DOMAIN event_id.v
                THEN handle_progress(p, event)
                ELSE IF "buildMetrics" \in DOMAIN event.v
                THEN handle_build_metrics(p, event)
                ELSE Ok(p)
         IN  IF event_id.t # "dict" THEN Ok(p)
             ELSE IF handled.exc # None THEN handled
             ELSE maybe_extract_resource_point(handled.p, event)

\* the handler the event is routed to (first match wins), then the resource
\* extraction; an id that is no dict returns before both
process_event(p, event) ==
    IF event.t # "dict" THEN Raise(p, "AttributeError")
    ELSE LET event_id == get(event, "id", JDict(<<>>))
             configured == Or(get(event_id, "configuredTarget", JNull),
                              get(event_id, "targetConfigured", JNull))
             handled ==
                IF "targetCompleted" \in DOMAIN event_id.v
                THEN handle_target_completed(p, event, event_id.v["targetCompleted"])
                ELSE IF "configuredTarget" \in DOMAIN event_id.v
                        \/ "targetConfigured" \in DOMAIN event_id.v
                THEN handle_target_configured(p, event, configured)
                ELSE IF "actionCompleted" \in DOMAIN event_id.v
                        \/ "actionExecuted" \in DOMAIN event_id.v
                THEN handle_action(p, event)
                ELSE IF "testResult" \in DOMAIN event_id.v
                THEN handle_test_result(p, event, event_id.v["testResult"])
                ELSE IF "progress" \in DOMAIN event_id.v
                THEN handle_progress(p, event)
                ELSE IF "buildMetrics" \in DOMAIN event.v
                THEN handle_build_metrics(p, event)
                ELSE Ok(p)
         IN  IF event_id.t # "dict" THEN Ok(p)
             ELSE IF handled.exc # None THEN handled
             ELSE maybe_extract_resource_point(handled.p, event)


\* A line of the stream: whitespace, text that is no JSON document, or the
\* text of the JSON document .value
BlankLine == [text |-> "blank", value |-> JNull]
MalformedLine == [text |-> "malformed", value |-> JNull]
JsonLine(value) == [text |-> "json", value |-> value]

\* self.reset(): class BEPParser of the parser service defines no method
\* reset, the attribute lookup raises
reset(p) == Raise(p, "AttributeError")

\* for raw_line in lines: ... (lines 41-53).  An exception of process_event
\* is swallowed: the loop goes on with the object as the call left it.
RECURSIVE StreamLoop(_, _)
StreamLoop(p, lines) ==
    IF lines = <<>> THEN Ok(p)
    ELSE LET line == Head(lines)
         IN  IF line.text = "blank" THEN StreamLoop(p, Tail(lines))
             ELSE IF line.text = "malformed" THEN StreamLoop(p, Tail(lines))
             ELSE StreamLoop(process_event([p EXCEPT !.events = Append(@, line.value)],
                                           line.value).p,
                             Tail(lines))

parse_stream(p, lines) ==
    IF reset(p).exc # None THEN reset(p)
    ELSE StreamLoop(reset(p).p, lines)

----------------------------------------------------------------------------
(* The exporters of the streaming parser.  A document is what json.dumps    *)
(* writes: the dict literals of the code as sequences of <<key, value>> in   *)
(* the order of the literal, lists as sequences.                            *)

Alphabet == <<"a", "b", "c", "d", "e", "f", "g", "h", "i", "j", "k", "l", "m",
              "n", "o", "p", "q", "r", "s", "t", "u", "v", "w", "x", "y", "z">>

\* ord(c) of the characters labels are written in
ord(c) ==
    CASE c = "-" -> 45 [] c = "/" -> 47 [] c = ":" -> 58 [] c = ">" -> 62
      [] c = "_" -> 95
      [] OTHER -> 96 + (CHOOSE i \in 1..26 : Alphabet[i] = c)

\* a < b on str
RECURSIVE StrLess(_, _)
StrLess(a, b) ==
    IF b = <<>> THEN FALSE
    ELSE IF a = <<>> THEN TRUE
    ELSE IF Head(a) = Head(b) THEN StrLess(Tail(a), Tail(b))
    ELSE ord(Head(a)) < ord(Head(b))

\* sorted(S) of a set of str
RECURSIVE sorted(_)
sorted(S) ==
    IF S = {} THEN <<>>
    ELSE LET m == CHOOSE x \in S : \A y \in S \ {x} : StrLess(x, y)
         IN  <<m>> \o sorted(S \ {m})

\* s.replace("/", "_").replace(":", "_")
safe_id(s) == [i \in DOMAIN s |-> IF s[i] \in {"/", ":"} THEN "_" ELSE s[i]]

\* s.split("/")
RECURSIVE split(_)
split(s) ==
    IF \A i \in DOMAIN s : s[i] # "/" THEN <<s>>
    ELSE LET k == CHOOSE i \in DOMAIN s :
                    s[i] = "/" /\ \A j \in 1..(i - 1) : s[j] # "/"
         IN  <<SubSeq(s, 1, k - 1)>> \o split(SubSeq(s, k + 1, Len(s)))

RECURSIVE Flatten(_)
Flatten(ss) == IF ss = <<>> THEN <<>> ELSE Head(ss) \o Flatten(Tail(ss))

TestSuffix == <<"_", "_", "t", "e", "s", "t">>

\* what an exporter leaves: the object, and the document it returns
Returns(p, doc) == [p |-> p, doc |-> doc]

\* an exporter that takes the points out of the series as it reads them
export_resource_usage_Draining(p) ==
    LET n == Len(p.resource_series)
    IN  Returns([p EXCEPT !.resource_series = <<>>],
                << <<"time", [i \in 1..n |-> p.resource_series[i].time]>>,
                   <<"cpu", [i \in 1..n |-> p.resource_series[i].cpu]>>,
                   <<"memory", [i \in 1..n |-> p.resource_series[i].memory]>>,
                   <<"count", n>> >>)

\* an exporter that writes the newest point first
export_resource_usage_NewestFirst(p) ==
    LET n == Len(p.resource_series)
    IN  Returns(p,
                << <<"time", [i \in 1..n |-> p.resource_series[n + 1 - i].time]>>,
                   <<"cpu", [i \in 1..n |-> p.resource_series[n + 1 - i].cpu]>>,
                   <<"memory", [i \in 1..n |-> p.resource_series[n + 1 - i].memory]>>,
                   <<"count", n>> >>)

export_resource_usage(p) ==
    LET n == Len(p.resource_series)
    IN  Returns(p,
                << <<"time", [i \in 1..n |-> p.resource_series[i].time]>>,
                   <<"cpu", [i \in 1..n |-> p.resource_series[i].cpu]>>,
                   <<"memory", [i \in 1..n |-> p.resource_series[i].memory]>>,
                   <<"count", n>> >>)

\* the node of a target, and the edges to it from its dependencies
TargetNode(target) ==
    LET label == target.label.v
        gid_parts == split(label)
    IN  << <<"id", safe_id(label)>>, <<"originalId", label>>,
           <<"label", gid_parts[Len(gid_parts)]>>, <<"type", "target">>,
           <<"status", target.status>>, <<"kind", target.kind>>,
           <<"group", IF Len(gid_parts) > 1 THEN gid_parts[2]
                      ELSE <<"r", "o", "o", "t">> >> >>

DependencyEdges(target) ==
    LET label == target.label.v
        deps == sorted({d.v : d \in target.dependencies})
    IN  [i \in 1..Len(deps) |->
            << <<"id", safe_id(label) \o <<"-">> \o safe_id(deps[i])>>,
               <<"source", safe_id(deps[i])>>,
               <<"target", safe_id(label)>>,
               <<"type", "dependency">> >>]

TestNode(test) ==
    LET test_label == test.label.v
        parts == split(test_label)
    IN  << <<"id", safe_id(test_label) \o TestSuffix>>, <<"originalId", test_label>>,
           <<"label", parts[Len(parts)]>>, <<"type", "test">>,
           <<"status", IF test.passed THEN "passed" ELSE "failed">>,
           <<"group", <<"t", "e", "s", "t", "s">> >> >>

\* (TestEdge_Reversed: source and target exchanged)
TestEdge_Reversed(test) ==
    LET test_label == test.label.v
    IN  << <<"id", safe_id(test_label) \o TestSuffix \o <<"-", ">">> \o safe_id(test_label)>>,
           <<"source", safe_id(test_label)>>,
           <<"target", safe_id(test_label) \o TestSuffix>>,
           <<"type", "test">> >>

TestEdge(test) ==
    LET test_label == test.label.v
    IN  << <<"id", safe_id(test_label) \o TestSuffix \o <<"-", ">">> \o safe_id(test_label)>>,
           <<"source", safe_id(test_label) \o TestSuffix>>,
           <<"target", safe_id(test_label)>>,
           <<"type", "test">> >>

\* the value under key of a dict literal
Field(pairs, key) == pairs[CHOOSE i \in 1..Len(pairs) : pairs[i][1] = key][2]

export_graph(p) ==
    LET nt == Len(p.targets)
        ns == Len(p.test_results)
        nodes == [i \in 1..nt |-> TargetNode(p.targets[i])]
                    \o [i \in 1..ns |-> TestNode(p.test_results[i])]
        edges == Flatten([i \in 1..nt |-> DependencyEdges(p.targets[i])])
                    \o [i \in 1..ns |-> TestEdge(p.test_results[i])]
    IN  Returns(p,
          << <<"nodes", nodes>>,
             <<"edges", edges>>,
             <<"metadata",
               << <<"totalTargets", nt>>, <<"totalTests", ns>>,
                  <<"actionSeen", p.action_count>>,
                  <<"groups", sorted({Field(nodes[i], "group") : i \in 1..Len(nodes)})>> >> >> >>)

export_summary(p) ==
    Returns(p,
            << <<"targets", Len(p.targets)>>,
               <<"tests", Len(p.test_results)>>,
               <<"actions", p.action_count>>,
               <<"has_resource_usage", Len(p.resource_series) > 0>> >>)

----------------------------------------------------------------------------
(* The file parser: class BEPParser of backend/app/core/parser.py, the      *)
(* module-level object bep_parser of the backend server.  Its RAG processor *)
(* (rag_processor, an external service) keeps no part of the aggregate and  *)
(* is left out.                                                             *)

\* BEPParser.__init__ of core/parser.py
CoreBEPParser ==
    [events |-> <<>>, targets |-> <<>>, test_results |-> <<>>,
     action_count |-> 0, resource_series |-> <<>>]

\* def reset(self): self.__init__()
core_reset(p) == Ok(CoreBEPParser)

\* (_handle_target_completed_NoLabelCheck: the test `if not label: return`
\* made on `label is None`, which lets the empty label through)
_handle_target_completed_NoLabelCheck(p, event, id_payload) ==
    IF id_payload.t # "dict" THEN Raise(p, "AttributeError")
    ELSE LET label == get(id_payload, "label", JNull)
             details == Or(Or(get(event, "completed", JDict(<<>>)),
                              get(event, "targetCompleted", JDict(<<>>))),
                           JDict(<<>>))
         IN  IF label.t = "null" THEN Ok(p)
             ELSE IF details.t # "dict" THEN Raise(p, "AttributeError")
             ELSE IF ~Hashable(label) THEN Raise(p, "TypeError")
             ELSE LET success == bool(get(details, "success", JBool(FALSE)))
                      t == GetOr(p.targets, label, Target(label))
                  IN  Ok([p EXCEPT !.targets =
                            Store(@, [t EXCEPT !.status = IF success THEN "success"
                                                          ELSE "failure"])])

_handle_target_completed(p, event, id_payload) ==
    IF id_payload.t # "dict" THEN Raise(p, "AttributeError")
    ELSE LET label == get(id_payload, "label", JNull)
             details == Or(Or(get(event, "completed", JDict(<<>>)),
                              get(event, "targetCompleted", JDict(<<>>))),
                           JDict(<<>>))
         IN  IF ~bool(label) THEN Ok(p)
             ELSE IF details.t # "dict" THEN Raise(p, "AttributeError")
             ELSE IF ~Hashable(label) THEN Raise(p, "TypeError")
             ELSE LET success == bool(get(details, "success", JBool(FALSE)))
                      t == GetOr(p.targets, label, Target(label))
                  IN  Ok([p EXCEPT !.targets =
                            Store(@, [t EXCEPT !.status = IF success THEN "success"
                                                          ELSE "failure"])])

\* the members of a list that are str, and the labels of those that are
\* objects holding a "label" field
StringsAndObjectLabels(value) ==
    IF value.t # "list" THEN {}
    ELSE {value.v[i] : i \in {j \in 1..Len(value.v) : value.v[j].t = "str"}}
            \cup ObjectLabels(value)

\* (_handle_target_configured_Fresh: the target built anew at every event,
\* t = Target(label=label))
_handle_target_configured_Fresh(p, event, id_payload) ==
    IF id_payload.t # "dict" THEN Raise(p, "AttributeError")
    ELSE LET label == get(id_payload, "label", JNull)
             t == Target(label)
             configured_payload == Or(Or(get(event, "configured", JNull),
                                         get(event, "targetConfigured", JNull)),
                                      JDict(<<>>))
         IN  IF ~bool(label) THEN Ok(p)
             ELSE IF ~Hashable(label) THEN Raise(p, "TypeError")
             ELSE IF configured_payload.t # "dict" THEN Raise(p, "AttributeError")
             ELSE LET kind == Or(get(configured_payload, "targetKind", JNull),
                                 get(configured_payload, "kind", JNull))
                      t1 == IF bool(kind) THEN [t EXCEPT !.kind = kind] ELSE t
                      deps == StringsAndObjectLabels(get(configured_payload, "deps", JNull))
                                \cup StringsAndObjectLabels(
                                        get(configured_payload, "dependencies", JNull))
                      t2 == [t1 EXCEPT !.dependencies = @ \cup deps]
                  IN  IF \E d \in deps : ~Hashable(d)
                      THEN Raise([p EXCEPT !.targets = Mutate(@, t1)], "TypeError")
                      ELSE Ok([p EXCEPT !.targets = Store(@, t2)])

_handle_target_configured(p, event, id_payload) ==
    IF id_payload.t # "dict" THEN Raise(p, "AttributeError")
    ELSE LET label == get(id_payload, "label", JNull)
             t == GetOr(p.targets, label, Target(label))
             configured_payload == Or(Or(get(event, "configured", JNull),
                                         get(event, "targetConfigured", JNull)),
                                      JDict(<<>>))
         IN  IF ~bool(label) THEN Ok(p)
             ELSE IF ~Hashable(label) THEN Raise(p, "TypeError")
             ELSE IF configured_payload.t # "dict" THEN Raise(p, "AttributeError")
             ELSE LET kind == Or(get(configured_payload, "targetKind", JNull),
                                 get(configured_payload, "kind", JNull))
                      t1 == IF bool(kind) THEN [t EXCEPT !.kind = kind] ELSE t
                      deps == StringsAndObjectLabels(get(configured_payload, "deps", JNull))
                                \cup StringsAndObjectLabels(
                                        get(configured_payload, "dependencies", JNull))
                      t2 == [t1 EXCEPT !.dependencies = @ \cup deps]
                  IN  IF \E d \in deps : ~Hashable(d)
                      THEN Raise([p EXCEPT !.targets = Mutate(@, t1)], "TypeError")
                      ELSE Ok([p EXCEPT !.targets = Store(@, t2)])

_handle_action(p, event) == Ok([p EXCEPT !.action_count = @ + 1])

\* the entry of self.test_results under label
TestResult(label, status, passed, run, attempt) ==
    [label |-> label, status |-> status, passed |-> passed, run |-> run,
     attempt |-> attempt]

\* (_handle_test_result_NoTarget: the result recorded and the target left
\* alone, the last four lines of the handler missing)
_handle_test_result_NoTarget(p, event, id_payload) ==
    IF id_payload.t # "dict" THEN Raise(p, "AttributeError")
    ELSE LET label == get(id_payload, "label", JNull)
             payload == get(event, "testResult", JDict(<<>>))
         IN  IF ~bool(label) THEN Ok(p)
             ELSE IF payload.t # "dict" THEN Raise(p, "AttributeError")
             ELSE IF Or(get(payload, "status", JNull), JStr(<<>>)).t # "str"
                  THEN Raise(p, "AttributeError")
             ELSE IF ~Hashable(label) THEN Raise(p, "TypeError")
             ELSE LET status == lower(Or(get(payload, "status", JNull), JStr(<<>>)).v)
                      passed == status \in {<<"p", "a", "s", "s", "e", "d">>,
                                            <<"p", "a", "s", "s">>,
                                            <<"s", "u", "c", "c", "e", "s", "s">>,
                                            <<"o", "k">>}
                  IN  Ok([p EXCEPT !.test_results =
                            Store(@, TestResult(label, status, passed,
                                                get(payload, "run", JInt(0)),
                                                get(payload, "attempt", JInt(0))))])

_handle_test_result(p, event, id_payload) ==
    IF id_payload.t # "dict" THEN Raise(p, "AttributeError")
    ELSE LET label == get(id_payload, "label", JNull)
             payload == get(event, "testResult", JDict(<<>>))
         IN  IF ~bool(label) THEN Ok(p)
             ELSE IF payload.t # "dict" THEN Raise(p, "AttributeError")
             ELSE IF Or(get(payload, "status", JNull), JStr(<<>>)).t # "str"
                  THEN Raise(p, "AttributeError")
             ELSE IF ~Hashable(label) THEN Raise(p, "TypeError")
             ELSE LET status == lower(Or(get(payload, "status", JNull), JStr(<<>>)).v)
                      passed == status \in {<<"p", "a", "s", "s", "e", "d">>,
                                            <<"p", "a", "s", "s">>,
                                            <<"s", "u", "c", "c", "e", "s", "s">>,
                                            <<"o", "k">>}
                      p1 == [p EXCEPT !.test_results =
                                Store(@, TestResult(label, status, passed,
                                                    get(payload, "run", JInt(0)),
                                                    get(payload, "attempt", JInt(0))))]
                      t == GetOr(p1.targets, label, Target(label))
                  IN  Ok([p1 EXCEPT !.targets =
                            Store(@, IF t.status = "unknown"
                                     THEN [t EXCEPT !.status = IF passed THEN "success"
                                                               ELSE "failure"]
                                     ELSE t)])

_handle_progress(p, event) == Ok(p)

_handle_build_metrics(p, event) == Ok(p)

_maybe_extract_resource_point(p, event) ==
    LET timeMillis == get(event, "timeMillis", JNull)
        time_ms == get_num(IF IsNumber(timeMillis) THEN timeMillis
                           ELSE get(event, "timestamp", JNull))
        progress == get(event, "progress", JNull)
        ru == IF progress.t = "dict" THEN get(progress, "resourceUsage", JNull) ELSE JNull
        cpu1 == IF ru.t = "dict"
                THEN Or(JNull, get_num(FirstTruthy(ru, "cpuUsage", "cpu", "cpu_utilization")))
                ELSE JNull
        mem1 == IF ru.t = "dict"
                THEN Or(JNull, get_num(FirstTruthy(ru, "memoryUsage", "memory", "mem")))
                ELSE JNull
        bm == get(event, "buildMetrics", JNull)
        mem_metrics == IF bm.t = "dict" THEN get(bm, "memoryMetrics", JNull) ELSE JNull
        mem == IF mem_metrics.t = "dict"
               THEN Or(mem1, get_num(FirstTruthy(mem_metrics, "peak", "highWatermark", "used")))
               ELSE mem1
        timing == IF bm.t = "dict" THEN get(bm, "timingMetrics", JNull) ELSE JNull
        cpu == IF timing.t = "dict"
               THEN Or(cpu1, get_num(FirstTruthy(timing, "cpu", "utilization", "processTimeMs")))
               ELSE cpu1
    IN  IF time_ms # JNull \/ cpu # JNull \/ mem # JNull
        THEN Ok([p EXCEPT !.resource_series = Append(@, ResourcePoint(time_ms, cpu, mem))])
        ELSE Ok(p)

_process_event(p, event) ==
    IF event.t # "dict" THEN Raise(p, "AttributeError")
    ELSE LET event_id == get(event, "id", JDict(<<>>))
             configured == Or(get(event_id, "configuredTarget", JNull),
                              get(event_id, "targetConfigured", JNull))
             handled ==
                IF "targetCompleted" \in DOMAIN event_id.v
                THEN _handle_target_completed(p, event, event_id.v["targetCompleted"])
                ELSE IF "configuredTarget" \in DOMAIN event_id.v
                        \/ "targetConfigured" \in DOMAIN event_id.v
                THEN _handle_target_configured(p, event, configured)
                ELSE IF "actionCompleted" \in DOMAIN event_id.v
                        \/ "actionExecuted" \in DOMAIN event_id.v
                THEN _handle_action(p, event)
                ELSE IF "testResult" \in DOMAIN event_id.v
                THEN _handle_test_result(p, event, event_id.v["testResult"])
                ELSE IF "progress" \in DOMAIN event_id.v
                THEN _handle_progress(p, event)
                ELSE IF "buildMetrics" \in DOMAIN event.v
                THEN _handle_build_metrics(p, event)
                ELSE Ok(p)
         IN  IF event_id.t # "dict" THEN Ok(p)
             ELSE IF handled.exc # None THEN handled
             ELSE _maybe_extract_resource_point(handled.p, event)

\* (FileLoop_StopAtMalformed: the malformed line ends the loop, `break` for
\* `continue`)
RECURSIVE FileLoop_StopAtMalformed(_, _)
FileLoop_StopAtMalformed(p, lines) ==
    IF lines = <<>> THEN Ok(p)
    ELSE LET line == Head(lines)
             event == line.value
             r == _process_event([p EXCEPT !.events = Append(@, event)], event)
         IN  IF line.text = "blank" THEN FileLoop_StopAtMalformed(p, Tail(lines))
             ELSE IF line.text = "malformed" THEN Ok(p)
             ELSE IF r.exc # None THEN r
             ELSE FileLoop_StopAtMalformed(r.p, Tail(lines))

\* with open(...) as f: for line in f: ... (lines 130-141).  An exception of
\* _process_event is not caught: it ends the loop and leaves parse_file.
RECURSIVE FileLoop(_, _)
FileLoop(p, lines) ==
    IF lines = <<>> THEN Ok(p)
    ELSE LET line == Head(lines)
             event == line.value
             r == _process_event([p EXCEPT !.events = Append(@, event)], event)
         IN  IF line.text = "blank" THEN FileLoop(p, Tail(lines))
             ELSE IF line.text = "malformed" THEN FileLoop(p, Tail(lines))
             ELSE IF r.exc # None THEN r
             ELSE FileLoop(r.p, Tail(lines))

\* parse_file(bep_file_path), of a path that exists with these lines
parse_file(p, lines) == FileLoop(core_reset(p).p, lines)

\* the edges of get_graph from a target to its dependencies
GraphDependencyEdges(target) ==
    LET label == target.label.v
        deps == sorted({d.v : d \in target.dependencies})
    IN  [i \in 1..Len(deps) |->
            << <<"id", safe_id(label) \o <<"-">> \o safe_id(deps[i])>>,
               <<"source", safe_id(label)>>,
               <<"target", safe_id(deps[i])>>,
               <<"type", "dependency">> >>]

\* get_graph(), on the module-level object; its nodes and test edges are
\* built as in export_graph
get_graph(p) ==
    LET nt == Len(p.targets)
        ns == Len(p.test_results)
        nodes == [i \in 1..nt |-> TargetNode(p.targets[i])]
                    \o [i \in 1..ns |-> TestNode(p.test_results[i])]
        edges == Flatten([i \in 1..nt |-> GraphDependencyEdges(p.targets[i])])
                    \o [i \in 1..ns |-> TestEdge(p.test_results[i])]
    IN  Returns(p,
          << <<"nodes", nodes>>,
             <<"edges", edges>>,
             <<"metadata",
               << <<"totalTargets", nt>>, <<"totalTests", ns>>,
                  <<"actionsSeen", p.action_count>>,
                  <<"groups", sorted({Field(nodes[i], "group") : i \in 1..Len(nodes)})>> >> >> >>)

----------------------------------------------------------------------------
(* Events and streams given to the parsers *)

\* "//pkg/sub:name", "//a:b", "//c:d"
LabelL == <<"/", "/", "p", "k", "g", "/", "s", "u", "b", ":", "n", "a", "m", "e">>
LabelAB == <<"/", "/", "a", ":", "b">>
LabelCD == <<"/", "/", "c", ":", "d">>
\* "//x:t", the label under the keys of lower precedence of events 16 and 17
LabelXT == <<"/", "/", "x", ":", "t">>
\* "//a/b", the target b of the package a/b
LabelASlashB == <<"/", "/", "a", "/", "b">>

\* {"id": {key: {"label": label}}}
IdOf(key, label) == JDict([id |-> JDict((key :> JDict([label |-> JStr(label)])))])

\* the event d with the further top-level keys of more (both dicts)
With(d, more) == JDict(more.v @@ d.v)

TargetCompletedEvent(label, success) ==
    With(IdOf("targetCompleted", label),
         JDict([completed |-> JDict([success |-> JBool(success)])]))

TestResultEvent(label, payload) ==
    With(IdOf("testResult", label), JDict([testResult |-> JDict(payload)]))

Events ==
    << \* 1, 2: target-completed, the second carrying a time
       TargetCompletedEvent(LabelL, TRUE),
       With(TargetCompletedEvent(LabelL, FALSE), JDict([timeMillis |-> JInt(100)])),
       \* 3: target-configured, kind and dependencies as a list of str
       With(IdOf("targetConfigured", LabelL),
            JDict([configured |-> JDict([targetKind |-> JStr(<<"l", "i", "b">>),
                                         deps |-> JList(<<JStr(LabelAB)>>)])])),
       \* 4: configuredTarget, dependencies as a list of objects with a label
       With(IdOf("configuredTarget", LabelL),
            JDict([configured |->
                      JDict([dependencies |->
                                JList(<<JDict([label |-> JStr(LabelCD)])>>)])])),
       \* 5: target-configured, the dependencies a str (no list)
       With(IdOf("targetConfigured", LabelL),
            JDict([configured |-> JDict([deps |-> JStr(LabelAB)])])),
       \* 6: target-configured with the payload under "targetKind"
       With(IdOf("targetConfigured", LabelL),
            JDict([targetKind |->
                      JDict([kind |-> JStr(<<"b", "i", "n">>),
                             deps |-> JList(<<JDict([label |-> JStr(LabelAB)])>>)])])),
       \* 7: an action, carrying a time earlier than those of 2 and 10
       JDict([id |-> JDict([actionCompleted |-> JDict(<<>>)]),
              timeMillis |-> JInt(7)]),
       \* 8, 9: test results, the second with run and attempt and a time
       TestResultEvent(LabelL, [status |-> JStr(<<"P", "A", "S", "S", "E", "D">>)]),
       With(TestResultEvent(LabelL, [status |-> JStr(<<"F", "A", "I", "L", "E", "D">>),
                                     run |-> JInt(2), attempt |-> JInt(1)]),
            JDict([timestamp |-> JInt(7)])),
       \* 10: progress with time and cpu
       JDict([id |-> JDict([progress |-> JDict(<<>>)]),
              timeMillis |-> JInt(100),
              progress |-> JDict([resourceUsage |-> JDict([cpuUsage |-> JInt(50)])])]),
       \* 11: progress with a cpu usage of 0 and nothing else
       JDict([id |-> JDict([progress |-> JDict(<<>>)]),
              progress |-> JDict([resourceUsage |-> JDict([cpuUsage |-> JInt(0)])])]),
       \* 12: build metrics, no id
       JDict([buildMetrics |-> JDict([memoryMetrics |-> JDict([peak |-> JInt(9)])])]),
       \* 13: an id that is no map, with a time
       JDict([id |-> JStr(<<"x">>), timeMillis |-> JInt(100)]),
       \* 14: an id of no known kind and no resource value
       JDict([id |-> JDict([started |-> JDict(<<>>)])]),
       \* 15: target-completed of another label
       TargetCompletedEvent(LabelAB, TRUE),
       \* 16: an id with the keys of four kinds, target-completed among them
       JDict([id |-> JDict([targetCompleted |-> JDict([label |-> JStr(LabelL)]),
                            configuredTarget |-> JDict([label |-> JStr(LabelXT)]),
                            actionCompleted |-> JDict(<<>>),
                            testResult |-> JDict([label |-> JStr(LabelXT)])]),
              completed |-> JDict([success |-> JBool(TRUE)]),
              configured |-> JDict([deps |-> JList(<<JStr(LabelAB)>>)]),
              testResult |-> JDict([status |-> JStr(<<"F", "A", "I", "L", "E", "D">>)])]),
       \* 17: an id with the keys of an action, a test result and progress
       JDict([id |-> JDict([actionExecuted |-> JDict(<<>>),
                            testResult |-> JDict([label |-> JStr(LabelXT)]),
                            progress |-> JDict(<<>>)]),
              testResult |-> JDict([status |-> JStr(<<"P", "A", "S", "S", "E", "D">>)])]),
       \* 18: progress with a time, a cpu that is no number under the first
       \* key and 2 under the second, and the memory 0
       JDict([id |-> JDict([progress |-> JDict(<<>>)]),
              timeMillis |-> JInt(5),
              progress |-> JDict([resourceUsage |->
                                    JDict([cpuUsage |-> JStr(<<"n", "/", "a">>),
                                           cpu |-> JInt(2),
                                           memoryUsage |-> JInt(0)])])]),
       \* 19: target-completed of "//a/b"
       TargetCompletedEvent(LabelASlashB, TRUE),
       \* 20: target-completed with the empty label
       TargetCompletedEvent(<<>>, TRUE),
       \* 21: target-configured, the id payload without a label
       JDict([id |-> JDict([configuredTarget |->
                               JDict([aspect |-> JStr(<<"x">>)])]),
              configured |-> JDict([targetKind |-> JStr(<<"l", "i", "b">>),
                                    deps |-> JList(<<JStr(LabelAB)>>)]),
              targetKind |-> JDict([kind |-> JStr(<<"b", "i", "n">>)])]),
       \* 22: test result, the id payload empty
       JDict([id |-> JDict([testResult |-> JDict(<<>>)]),
              testResult |-> JDict([status |-> JStr(<<"P", "A", "S", "S", "E", "D">>)])]) >>

\* the lines of the streams: blank, malformed, the text of events, the text
\* of a JSON document that is no object, and the text of an action event
Lines ==
    <<BlankLine, MalformedLine, JsonLine(Events[1]), JsonLine(Events[4]),
      JsonLine(Events[9]), JsonLine(Events[10]), JsonLine(JInt(42)),
      JsonLine(Events[7])>>

\* the stream of the lines numbered idx[1], idx[2], ...
Stream(idx) == [k \in DOMAIN idx |-> Lines[idx[k]]]

----------------------------------------------------------------------------
(* Calls on a parser object.  bep holds the object (.p), its class (.class: *)
(* "service" for the streaming parser, "core" for the file parser), the     *)
(* events it was given since it was constructed or reset (.fed), and the    *)
(* last call: its name (.op), its stream argument (.arg), the exception it  *)
(* raised (.exc) and the document it returned (.doc); .n counts the calls   *)
(* of an exporter made in a row.                                            *)

Called(class, p, fed, op, arg, exc, doc) ==
    [class |-> class, p |-> p, fed |-> fed, op |-> op, arg |-> arg,
     exc |-> exc, doc |-> doc, n |-> 1]

\* the call of the exporter named op, which returns r
Exported(op, r) ==
    [Called(bep.class, r.p, bep.fed, op, <<>>, None, r.doc)
       EXCEPT !.n = IF bep.op = op THEN bep.n + 1 ELSE 1]

\* an exporter is called on an object that can hold events (the task calls
\* each once, tasks.py:67-69), at most MaxCalls times in a row
CanExport(op) ==
    /\ bep.class = "service"
    /\ bep.op = op => bep.n < MaxCalls

\* no parser object: the state of bep in the upload pipeline
NoParser == Called("none", BEPParser, <<>>, "none", <<>>, None, <<>>)

\* parser = BEPParser()
Constructed(class) ==
    Called(class, IF class = "service" THEN BEPParser ELSE CoreBEPParser,
           <<>>, "__init__", <<>>, None, <<>>)

\* parser.process_event(event), bep_parser._process_event(event)
ProcessEvent ==
    /\ Len(bep.fed) < MaxEvents
    /\ \E i \in 1..Len(Events) :
         LET r == IF bep.class = "service" THEN process_event(bep.p, Events[i])
                  ELSE _process_event(bep.p, Events[i])
         IN  bep' = Called(bep.class, r.p, Append(bep.fed, Events[i]),
                           "process_event", <<>>, r.exc, <<>>)
    /\ UNCHANGED <<pipeline, calls>>

\* parser.parse_stream(lines()) of the task (tasks.py:54)
ParseStream ==
    /\ bep.class = "service"
    /\ bep.op = "__init__"
    /\ \E n \in 0..MaxLines : \E idx \in [1..n -> 1..Len(Lines)] :
         LET r == parse_stream(bep.p, Stream(idx))
         IN  bep' = Called(bep.class, r.p,
                           IF r.exc = None THEN r.p.events ELSE bep.fed,
                           "parse_stream", Stream(idx), r.exc, <<>>)
    /\ UNCHANGED <<pipeline, calls>>

\* bep_parser.parse_file(path) of the backend (core/parser.py:498)
ParseFile ==
    /\ bep.class = "core"
    /\ bep.op = "__init__"
    /\ \E n \in 0..MaxLines : \E idx \in [1..n -> 1..Len(Lines)] :
         LET r == parse_file(bep.p, Stream(idx))
         IN  bep' = Called(bep.class, r.p, r.p.events,
                           "parse_file", Stream(idx), r.exc, <<>>)
    /\ UNCHANGED <<pipeline, calls>>

\* summary_bytes = parser.export_summary()  (tasks.py:67)
ExportSummary ==
    /\ CanExport("export_summary")
    /\ bep' = Exported("export_summary", export_summary(bep.p))
    /\ UNCHANGED <<pipeline, calls>>

\* graph_bytes = parser.export_graph()  (tasks.py:68)
ExportGraph ==
    /\ CanExport("export_graph")
    /\ bep' = Exported("export_graph", export_graph(bep.p))
    /\ UNCHANGED <<pipeline, calls>>

\* resource_bytes = parser.export_resource_usage()  (tasks.py:69)
ExportResourceUsage ==
    /\ CanExport("export_resource_usage")
    /\ bep' = Exported("export_resource_usage", export_resource_usage(bep.p))
    /\ UNCHANGED <<pipeline, calls>>

\* GET /api/graph of the backend, on its object bep_parser
GetGraph ==
    /\ bep.class = "core"
    /\ bep.op = "get_graph" => bep.n < MaxCalls
    /\ bep' = Exported("get_graph", get_graph(bep.p))
    /\ UNCHANGED <<pipeline, calls>>

----------------------------------------------------------------------------
(* update_upload_status, command by command.  The function is a GET of the  *)
(* record, changes to the copy, and a SET of the copy; the uploader and the *)
(* worker processes call it on one redis.  In the actions of the pipeline   *)
(* above a call is one step; here the two commands of a call are two steps, *)
(* and calls of two callers on the record of one file_id interleave.        *)
(* calls holds the store the calls started from (.start), the calls that    *)
(* have read (.flight, each with the copy it holds) and the calls that have *)
(* written, in that order (.done).                                          *)

NoCalls == [start |-> <<>>, flight |-> {}, done |-> <<>>]

\* the file_id of the record the calls are about
UpdatedFile == "f1"

\* record = get_upload_record(file_id): the copy, or None
get_upload_record(recs, file_id) ==
    IF file_id \in DOMAIN recs THEN Some(recs[file_id]) ELSE None

\* the assignments to the copy
Updated(record, status, error_message, output_location) ==
    [record EXCEPT !.status = status,
                   !.completed_at = IF status \in {COMPLETED, FAILED}
                                    THEN Some("utcnow") ELSE @,
                   !.error_message = IF Truthy(error_message)
                                     THEN error_message ELSE @,
                   !.output_json_url = IF Truthy(output_location)
                                       THEN output_location ELSE @]

\* status_redis.set(_upload_key(file_id), json.dumps(jsonable_encoder(record)))
status_redis_set(recs, file_id, record) == (file_id :> record) @@ recs

\* the calls of the program: by complete_upload of the uploader, and by the
\* task at its start, at its end and in its handler for storage errors
Update(by, status, error_message, output_location) ==
    [by |-> by, status |-> status, error_message |-> error_message,
     output_location |-> output_location]

Updates ==
    {Update("uploader", PROCESSING, None, None),
     Update("worker", PROCESSING, None, None),
     Update("worker", COMPLETED, None, Some(base_key(UpdatedFile))),
     Update("worker", FAILED, Some(GetObjectError), None)}

\* a caller reaches the GET of a call; it makes one call at a time
UpdateReads ==
    /\ Len(calls.done) + Cardinality(calls.flight) < MaxUpdates
    /\ \E u \in Updates :
         /\ \A c \in calls.flight : c.u.by # u.by
         /\ calls' = [calls EXCEPT !.flight =
                         @ \cup {[u |-> u, record |-> get_upload_record(records, UpdatedFile)]}]
    /\ UNCHANGED <<records, s3, queue, running, sent, bep>>

\* a call that has read goes on to its SET, or returns at `if not record`
UpdateWrites ==
    \E c \in calls.flight :
        /\ records' = IF c.record = None THEN records
                      ELSE status_redis_set(records, UpdatedFile,
                                            Updated(c.record[1], c.u.status, c.u.error_message,
                                                    c.u.output_location))
        /\ calls' = [calls EXCEPT !.flight = @ \ {c}, !.done = Append(@, c.u)]
        /\ UNCHANGED <<s3, queue, running, sent, bep>>

----------------------------------------------------------------------------
(* Specifications *)

Init ==
    /\ records = <<>>
    /\ s3 = <<>>
    /\ queue = EmptyBag
    /\ running = EmptyBag
    /\ sent = [f \in Files |-> 0]
    /\ bep = NoParser
    /\ calls = NoCalls

Next ==
    \/ init_upload
    \/ presigned_post
    \/ CompleteUpload
    \/ TaskStart
    \/ GetObject
    \/ ParseAndExport
    \/ PutSummary
    \/ PutGraph
    \/ PutResourceUsage
    \/ SetCompleted

Spec == Init /\ [][Next]_vars

\* The worker keeps running: a queued message is taken when a worker process
\* is free, and an attempt that can take its next step takes it.
FairSpec == Spec /\ WF_vars(WorkerStep)

\* A parser object of either class, and the calls made on it
ParserInit ==
    /\ records = <<>>
    /\ s3 = <<>>
    /\ queue = EmptyBag
    /\ running = EmptyBag
    /\ sent = [f \in Files |-> 0]
    /\ bep \in {Constructed("service"), Constructed("core")}
    /\ calls = NoCalls

ParserNext ==
    \/ ProcessEvent
    \/ ParseStream
    \/ ParseFile
    \/ ExportSummary
    \/ ExportGraph
    \/ ExportResourceUsage
    \/ GetGraph

ParserSpec == ParserInit /\ [][ParserNext]_vars

\* The record of a file_id as init_upload or complete_upload leaves it, and
\* calls of update_upload_status on it by the uploader and the worker
StoreInit ==
    /\ \E r \in {UploadRecord(UpdatedFile, RawKey(UpdatedFile)),
                  Updated(UploadRecord(UpdatedFile, RawKey(UpdatedFile)), PROCESSING, None, None)} :
          /\ records = (UpdatedFile :> r)
          /\ calls = [NoCalls EXCEPT !.start = (UpdatedFile :> r)]
    /\ s3 = <<>>
    /\ queue = EmptyBag
    /\ running = EmptyBag
    /\ sent = [f \in Files |-> 0]
    /\ bep = NoParser

StoreNext ==
    \/ UpdateReads
    \/ UpdateWrites

StoreSpec == StoreInit /\ [][StoreNext]_vars

----------------------------------------------------------------------------
(* Vocabulary of the properties *)

Terminal == {COMPLETED, FAILED}

\* the keys the specification names: processed/{file_id}/ and the three
\* documents under it
ArtifactPrefix(file_id) == <<"processed/", file_id, "/">>
ArtifactKey(file_id, name) == <<"processed/", file_id, "/", name>>
ArtifactKeys == {ArtifactKey(f, n) : f \in Files, n \in ArtifactNames}
UploadKeys == {<<"bep-files/", f, ".json">> : f \in Files}

\* a task of file_id is waiting in the queue or running in a worker
Outstanding(file_id) ==
    \/ \E m \in BagToSet(queue) : m.file_id = file_id
    \/ \E a \in BagToSet(running) : a.file_id = file_id

\* this step is a step of attempt a: it leaves its place
Steps(a) == CopiesIn(a, running') < CopiesIn(a, running)

\* this step ends attempt a (a was the only one to move) ...
Ends(a) == running' = running (-) SetToBag({a})
\* ... with a retry of its task sent, or without
EndsRetrying(a) ==
    /\ Ends(a)
    /\ \E o \in {"get_error", "read_error", "put_error", "fatal"} :
            queue' = queue (+) SetToBag({RetryMessage(a, o)})
EndsTask(a) == Ends(a) /\ queue' = queue

----------------------------------------------------------------------------
(* C1..C10 *)

\* C1 (as stated): once a record is COMPLETED or FAILED, no step changes its
\* status.
C1_TerminalIsFinal ==
    [][\A f \in DOMAIN records :
         records[f].status \in Terminal => records'[f].status = records[f].status]_vars

\* C2 (as stated): when the only job of a file has ended and left the record
\* FAILED, none of the three artifacts of that file is in storage.
C2_NoPartialArtifacts ==
    \A f \in DOMAIN records :
        (sent[f] = 1 /\ ~Outstanding(f) /\ records[f].status = FAILED)
            => \A n \in ArtifactNames : ArtifactKey(f, n) \notin DOMAIN s3

\* C3 (as stated): a job whose fetch raised a storage error on attempts 1 and
\* 2 does not end there FAILED: when the job ends, the record is COMPLETED.
C3_CompletedOnThirdAttempt ==
    [][\A a \in BagToSet(running) :
         (a.pc = "get_object" /\ a.log = <<"get_error">> /\ EndsTask(a))
            => records'[a.file_id].status = COMPLETED]_vars

\* C4 (as stated): an attempt that ends with a storage error sets the record
\* FAILED, with the error's message, when the budget is exhausted, and does
\* not set it FAILED while a retry is still scheduled.
C4_FailedOnlyWhenExhausted ==
    [][\A a \in BagToSet(running) :
         /\ (a.pc = "get_object" /\ EndsTask(a))
               => /\ Len(a.log) = max_retries
                  /\ records'[a.file_id].status = FAILED
                  /\ records'[a.file_id].error_message = Some(GetObjectError)
         /\ EndsRetrying(a)
               => (records'[a.file_id].status = FAILED
                      => records[a.file_id].status = FAILED)]_vars

\* this step of attempt a is the handling of a storage error of the read of
\* its stream
ReadFails(a) == Ends(a) /\ records'[a.file_id].error_message = Some(ReadError)

\* C5: when parse or export raises a non-storage error (the stream is one
\* that makes them raise, and its read did not fail first), the attempt ends
\* in that step, no retry is sent, and the record is FAILED with that error's
\* message.
C5_FatalIsImmediate ==
    [][\A a \in BagToSet(running) :
         (a.pc = "parse_stream" /\ ParseRaises(a.body) /\ Steps(a) /\ ~ReadFails(a))
            => /\ EndsTask(a)
               /\ records'[a.file_id].status = FAILED
               /\ records'[a.file_id].error_message = Some(FatalError)]_vars

\* C5 witness: a retried attempt has hit the non-storage error: the record is
\* FAILED with its message and nothing of the job is left.
C5_Witness ==
    \E f \in DOMAIN records :
        /\ records[f].status = FAILED
        /\ records[f].error_message = Some(FatalError)
        /\ s3[records[f].s3_key] = Body("bepBad")
        /\ sent[f] = 1
        /\ ~Outstanding(f)

\* C6 (as stated): a record in PROCESSING eventually is COMPLETED or FAILED.
C6_ProcessingEnds ==
    \A f \in Files :
        (f \in DOMAIN records /\ records[f].status = PROCESSING)
            ~> (f \in DOMAIN records /\ records[f].status \in Terminal)

\* What one successful run of the task for file_id leaves under name
SingleRunArtifact(file_id, name) == Export(name, s3[<<"bep-files/", file_id, ".json">>])

C8_LifecycleFields ==
    \A f \in DOMAIN records :
        /\ records[f].status = COMPLETED
              => /\ records[f].completed_at # None
                 /\ records[f].output_json_url = Some(ArtifactPrefix(f))
        /\ records[f].status = FAILED
              => /\ records[f].completed_at # None
                 /\ Truthy(records[f].error_message)
        /\ records[f].status \in {UPLOADING, PROCESSING}
              => records[f].completed_at = None

\* C9 (as stated): a poller is answered one of the four statuses, and an
\* error_message only together with FAILED.
C9_PollersSee ==
    \A f \in Files :
        get_upload_status(f).code = 200
            => /\ get_upload_status(f).status \in UploadStatus
               /\ get_upload_status(f).error_message # None
                     => get_upload_status(f).status = FAILED

\* C10: while the raw object of a known file_id is not in storage, a
\* /upload/complete request for it is rejected (400, or 500 when the check
\* itself fails), it changes neither records nor queue, and the record is
\* and stays UPLOADING.
C10_MissingObjectRejected ==
    [][\A f \in DOMAIN records :
         <<"bep-files/", f, ".json">> \notin DOMAIN s3
            => /\ \A send_ok \in BOOLEAN :
                    /\ complete_upload_response(f, TRUE, send_ok) = 400
                    /\ complete_upload_response(f, FALSE, send_ok) = 500
               /\ \A head_ok, send_ok \in BOOLEAN :
                    complete_upload(f, head_ok, send_ok)
                        => UNCHANGED <<records, queue, sent>>
               /\ records[f].status = UPLOADING
               /\ records'[f].status = UPLOADING
               /\ ~Outstanding(f)]_vars

\* C10 witness: a record whose object was never uploaded, asked to complete
\* while the job of another file is being processed.
C10_Witness ==
    \E f \in DOMAIN records :
        /\ <<"bep-files/", f, ".json">> \notin DOMAIN s3
        /\ complete_upload_response(f, TRUE, TRUE) = 400
        /\ records[f].status = UPLOADING
        /\ \E g \in DOMAIN records : g # f /\ Outstanding(g)

----------------------------------------------------------------------------
(* C11..C20 *)

\* C11 (as stated): in every reachable state, a record in PROCESSING has a job
\* of its file_id in the queue or running in a worker.
C11_ProcessingHasJob ==
    \A f \in DOMAIN records :
        records[f].status = PROCESSING => Outstanding(f)

\* a stream of blank and malformed lines only
AllSkipped(lines) == \A i \in DOMAIN lines : lines[i].text \in {"blank", "malformed"}

\* C12 (as stated): parse_stream raises on no stream (an exception of it is
\* the task's non-storage error, which sets the record FAILED), and after a
\* stream of malformed and blank lines only the summary counts 0 targets,
\* 0 tests and 0 actions.
C12_MalformedNeverAborts ==
    bep.op = "parse_stream"
        => /\ bep.exc = None
           /\ AllSkipped(bep.arg)
                 => /\ Field(export_summary(bep.p).doc, "targets") = 0
                    /\ Field(export_summary(bep.p).doc, "tests") = 0
                    /\ Field(export_summary(bep.p).doc, "actions") = 0

\* the four collections of the aggregate
Aggregate(p) == <<p.targets, p.test_results, p.action_count, p.resource_series>>

\* the stream without its blank and malformed lines
WithoutSkipped(lines) == SelectSeq(lines, LAMBDA l : l.text = "json")

\* C13: a call of parse_stream or parse_file leaves the aggregate that the
\* same call on the same object leaves when it is given the stream without
\* its blank and malformed lines.
C13_SkippedLinesAreLocal ==
    [][/\ (bep.op = "__init__" /\ bep'.op = "parse_stream")
            => Aggregate(bep'.p)
                 = Aggregate(parse_stream(bep.p, WithoutSkipped(bep'.arg)).p)
       /\ (bep.op = "__init__" /\ bep'.op = "parse_file")
            => Aggregate(bep'.p)
                 = Aggregate(parse_file(bep.p, WithoutSkipped(bep'.arg)).p)]_vars

\* C13 witness: parse_file has read a stream with a blank line, a malformed
\* line and an event, and the event is in the aggregate.
C13_Witness ==
    /\ bep.op = "parse_file"
    /\ \E i, j, k \in DOMAIN bep.arg :
          /\ bep.arg[i].text = "blank"
          /\ bep.arg[j].text = "malformed"
          /\ bep.arg[k].text = "json"
          /\ j < k
    /\ bep.exc = None
    /\ Len(bep.p.targets) > 0

----------------------------------------------------------------------------
(* The events of the specification, read off the events given *)

Labels == {LabelL, LabelAB, LabelCD}

\* the event has a map-shaped id with this key, naming this label
IsOfKind(e, key, label) ==
    /\ e.t = "dict"
    /\ "id" \in DOMAIN e.v
    /\ e.v["id"].t = "dict"
    /\ key \in DOMAIN e.v["id"].v
    /\ JEq(get(e.v["id"].v[key], "label", JNull), JStr(label))

\* target-completed(label, success)
IsTargetCompleted(e, label) == IsOfKind(e, "targetCompleted", label)
SuccessOf(e) == e.v["completed"].v["success"].v

\* test-result(label, status)
IsTestResult(e, label) == IsOfKind(e, "testResult", label) /\ "testResult" \in DOMAIN e.v

\* target-configured(label, ...), under either spelling of the key
IsTargetConfigured(e, label) ==
    IsOfKind(e, "targetConfigured", label) \/ IsOfKind(e, "configuredTarget", label)

\* Target[label] of the aggregate, and whether there is one
HasTarget(p, label) == Find(p.targets, JStr(label)) # {}
TargetOf(p, label) == GetOr(p.targets, JStr(label), Target(JStr(label)))
HasTestResult(p, label) == Find(p.test_results, JStr(label)) # {}
TestResultOf(p, label) == p.test_results[CHOOSE i \in Find(p.test_results, JStr(label)) : TRUE]

Max(S) == CHOOSE x \in S : \A y \in S : y <= x

\* C14: when target-completed events for a label were processed, the
\* target's status is that of the last of them, whatever test-result events
\* for the label came before or after.
C14_TargetCompletedWins ==
    \A L \in Labels :
        LET completed == {i \in DOMAIN bep.fed : IsTargetCompleted(bep.fed[i], L)}
        IN  completed # {}
                => /\ HasTarget(bep.p, L)
                   /\ TargetOf(bep.p, L).status
                         = IF SuccessOf(bep.fed[Max(completed)]) THEN "success"
                           ELSE "failure"

\* C14 witness: target-completed(L, true), then a FAILED test result for L
\* that was recorded: the status is still "success".
C14_Witness ==
    /\ \E i, j \in DOMAIN bep.fed :
          /\ i < j
          /\ IsTargetCompleted(bep.fed[i], LabelL) /\ SuccessOf(bep.fed[i])
          /\ IsTestResult(bep.fed[j], LabelL)
    /\ HasTestResult(bep.p, LabelL)
    /\ ~TestResultOf(bep.p, LabelL).passed
    /\ TargetOf(bep.p, LabelL).status = "success"

\* this step is a call of process_event, and e is the event it was given
Processes(e) ==
    /\ bep'.op = "process_event"
    /\ bep'.fed = Append(bep.fed, e)

\* the statuses that count as passed
PassingStatuses ==
    {<<"p", "a", "s", "s", "e", "d">>, <<"p", "a", "s", "s">>,
     <<"s", "u", "c", "c", "e", "s", "s">>, <<"o", "k">>}

\* C15 (as stated): a test-result event for label L leaves TestResult[L] with
\* the lowercased status, passed by that status, and run and attempt (0 when
\* absent); Target[L] exists, with its status set from passed when it was
\* "unknown" (or there was no target) and untouched otherwise.
C15_TestResultRecorded ==
    [][\A i \in 1..Len(Events) : \A L \in Labels :
         (Processes(Events[i]) /\ IsTestResult(Events[i], L))
            => LET payload == Events[i].v["testResult"]
                   status == lower(get(payload, "status", JStr(<<>>)).v)
                   passed == status \in PassingStatuses
               IN  /\ HasTestResult(bep'.p, L)
                   /\ TestResultOf(bep'.p, L).status = status
                   /\ TestResultOf(bep'.p, L).passed = passed
                   /\ TestResultOf(bep'.p, L).run = get(payload, "run", JInt(0))
                   /\ TestResultOf(bep'.p, L).attempt = get(payload, "attempt", JInt(0))
                   /\ HasTarget(bep'.p, L)
                   /\ TargetOf(bep'.p, L).status
                         = IF TargetOf(bep.p, L).status = "unknown"
                           THEN IF passed THEN "success" ELSE "failure"
                           ELSE TargetOf(bep.p, L).status]_vars

\* the dependency labels a list carries: its str members and the labels of
\* its objects that hold a "label" field; any other value carries none
LabelsCarried(value) ==
    IF value.t # "list" THEN {}
    ELSE {value.v[i] : i \in {j \in 1..Len(value.v) : value.v[j].t = "str"}}
            \cup {value.v[i].v["label"] :
                    i \in {j \in 1..Len(value.v) :
                             value.v[j].t = "dict" /\ "label" \in DOMAIN value.v[j].v}}

\* the dependency labels of a target-configured event: those under "deps"
\* and "dependencies" of its payload ("configured", else "targetConfigured")
DepsCarried(e) ==
    LET payload == IF "configured" \in DOMAIN e.v THEN e.v["configured"]
                   ELSE IF "targetConfigured" \in DOMAIN e.v THEN e.v["targetConfigured"]
                   ELSE JDict(<<>>)
    IN  LabelsCarried(get(payload, "deps", JNull))
            \cup LabelsCarried(get(payload, "dependencies", JNull))

\* C16 (as stated): when target-configured events for a label were processed,
\* Target[label].dependencies is the union of the dependency labels they
\* carried.
C16_DependenciesAccumulate ==
    \A L \in Labels :
        LET configured == {i \in DOMAIN bep.fed : IsTargetConfigured(bep.fed[i], L)}
        IN  configured # {}
                => /\ HasTarget(bep.p, L)
                   /\ TargetOf(bep.p, L).dependencies
                         = UNION {DepsCarried(bep.fed[i]) : i \in configured}

\* C17 (as stated): a target-configured event for label L raises nothing and
\* adds to Target[L].dependencies the labels it carries: the str members and
\* the labels of the objects of a list under "deps" or "dependencies", and
\* nothing for a value of another shape.
C17_DependencyShapes ==
    [][\A i \in 1..Len(Events) : \A L \in Labels :
         (Processes(Events[i]) /\ IsTargetConfigured(Events[i], L))
            => /\ bep'.exc = None
               /\ HasTarget(bep'.p, L)
               /\ TargetOf(bep'.p, L).dependencies
                     = TargetOf(bep.p, L).dependencies \cup DepsCarried(Events[i])]_vars

\* the number under one of three keys of a dict, else under the next: a
\* value that is no number counts as absent
NumberUnder(d, k1, k2, k3) ==
    IF d.t # "dict" THEN JNull
    ELSE IF IsNumber(get(d, k1, JNull)) THEN get_num(get(d, k1, JNull))
    ELSE IF IsNumber(get(d, k2, JNull)) THEN get_num(get(d, k2, JNull))
    ELSE IF IsNumber(get(d, k3, JNull)) THEN get_num(get(d, k3, JNull))
    ELSE JNull

\* d[k1][k2] when both are there and dicts on the way
Nested(d, k1, k2) ==
    IF d.t = "dict" /\ get(d, k1, JNull).t = "dict" THEN get(get(d, k1, JNull), k2, JNull)
    ELSE JNull

\* the time, cpu and memory values an event carries, in the recovery order
\* of the specification; JNull for a value not found
TimeCarried(e) ==
    IF IsNumber(get(e, "timeMillis", JNull)) THEN get_num(get(e, "timeMillis", JNull))
    ELSE get_num(get(e, "timestamp", JNull))

CpuCarried(e) ==
    LET fromProgress == NumberUnder(Nested(e, "progress", "resourceUsage"),
                                    "cpuUsage", "cpu", "cpu_utilization")
    IN  IF fromProgress # JNull THEN fromProgress
        ELSE NumberUnder(Nested(e, "buildMetrics", "timingMetrics"),
                         "cpu", "utilization", "processTimeMs")

MemoryCarried(e) ==
    LET fromProgress == NumberUnder(Nested(e, "progress", "resourceUsage"),
                                    "memoryUsage", "memory", "mem")
    IN  IF fromProgress # JNull THEN fromProgress
        ELSE NumberUnder(Nested(e, "buildMetrics", "memoryMetrics"),
                         "peak", "highWatermark", "used")

CarriesResource(e) ==
    TimeCarried(e) # JNull \/ CpuCarried(e) # JNull \/ MemoryCarried(e) # JNull

\* the resource extraction of the object's class, called on its own
Extraction(b, e) ==
    IF b.class = "service" THEN maybe_extract_resource_point(b.p, e)
    ELSE _maybe_extract_resource_point(b.p, e)

\* C18 (as stated): the resource extraction runs on every event processed,
\* whatever its id (absent, not map-shaped) and whatever handler it is routed
\* to: the series after process_event is the one the extraction leaves.
C18_ExtractionOnEveryEvent ==
    [][\A i \in 1..Len(Events) :
         Processes(Events[i])
            => bep'.p.resource_series = Extraction(bep, Events[i]).p.resource_series]_vars

\* the id of the event is absent or map-shaped, and the call raised nothing:
\* process_event has reached the resource extraction
ReachesExtraction(e) ==
    /\ get(e, "id", JDict(<<>>)).t = "dict"
    /\ bep'.exc = None

\* C19 (as stated): an event on which a time, cpu or memory value is found
\* appends exactly one point, with the values found and null for the rest;
\* an event with none appends no point.
C19_OnePointPerEvent ==
    [][\A i \in 1..Len(Events) :
         (Processes(Events[i]) /\ ReachesExtraction(Events[i]))
            => bep'.p.resource_series
                 = IF CarriesResource(Events[i])
                   THEN Append(bep.p.resource_series,
                               ResourcePoint(TimeCarried(Events[i]), CpuCarried(Events[i]),
                                             MemoryCarried(Events[i])))
                   ELSE bep.p.resource_series]_vars

ExportNames == {"export_summary", "export_graph", "export_resource_usage"}

----------------------------------------------------------------------------
(* C21..C30 *)

\* Sanitize(s): s with every "/" and ":" replaced by "_"
Sanitize(s) == [i \in DOMAIN s |-> IF s[i] \in {"/", ":"} THEN "_" ELSE s[i]]

GraphNames == {"export_graph", "get_graph"}

\* the (target, dependency) pairs of the aggregate
DependencyPairs(p) ==
    UNION {{<<p.targets[i].label.v, d.v>> : d \in p.targets[i].dependencies} :
             i \in 1..Len(p.targets)}

\* the edges of a graph document of the given type
EdgesOfType(doc, type) ==
    SelectSeq(Field(doc, "edges"), LAMBDA e : Field(e, "type") = type)

\* C21 (as stated): the graph holds one edge of type "dependency" per
\* (target, dependency) pair, from the sanitized target label to the
\* sanitized dependency label.
C21_DependencyEdges ==
    bep.op \in GraphNames
       => LET edges == EdgesOfType(bep.doc, "dependency")
          IN  /\ Len(edges) = Cardinality(DependencyPairs(bep.p))
              /\ {<<Field(edges[i], "source"), Field(edges[i], "target")>> : i \in 1..Len(edges)}
                    = {<<Sanitize(pr[1]), Sanitize(pr[2])>> : pr \in DependencyPairs(bep.p)}

\* the nodes of a graph document of the given type
NodesOfType(doc, type) ==
    SelectSeq(Field(doc, "nodes"), LAMBDA n : Field(n, "type") = type)

\* the package segment of a label "//pkg/...": the text between the leading
\* "//" and the next "/"
PackageSegment(label) ==
    LET rest == SubSeq(label, 3, Len(label))
        k == CHOOSE i \in 1..Len(rest) : rest[i] = "/" /\ \A j \in 1..(i - 1) : rest[j] # "/"
    IN  SubSeq(rest, 1, k - 1)

HasPackage(label) ==
    /\ Len(label) > 2 /\ label[1] = "/" /\ label[2] = "/"
    /\ \E i \in 3..Len(label) : label[i] = "/"

\* C22 (as stated): a target node's id is its sanitized label; its group is
\* the package segment of the label ("pkg" for "//pkg/sub:name"), and
\* "root" for a label without "/".
C22_NodeIdAndGroup ==
    bep.op \in GraphNames
       => \A i \in 1..Len(NodesOfType(bep.doc, "target")) :
            LET node == NodesOfType(bep.doc, "target")[i]
                label == Field(node, "originalId")
            IN  /\ Field(node, "id") = Sanitize(label)
                /\ HasPackage(label) => Field(node, "group") = PackageSegment(label)
                /\ (\A j \in 1..Len(label) : label[j] # "/")
                      => Field(node, "group") = <<"r", "o", "o", "t">>

\* a dict literal holds the key
HasField(pairs, key) == \E i \in 1..Len(pairs) : pairs[i][1] = key

\* the event is one of an action: its id holds "actionCompleted" or
\* "actionExecuted" and no key of a target event
IsActionEvent(e) ==
    /\ e.t = "dict" /\ "id" \in DOMAIN e.v /\ e.v["id"].t = "dict"
    /\ DOMAIN e.v["id"].v \cap {"actionCompleted", "actionExecuted"} # {}
    /\ DOMAIN e.v["id"].v \cap {"targetCompleted", "configuredTarget", "targetConfigured"} = {}

ActionEvents(fed) == Len(SelectSeq(fed, IsActionEvent))

DistinctLabels(entries) == Cardinality({entries[i].label : i \in 1..Len(entries)})

\* the counts of the summary document
SummaryCounts ==
    bep.op = "export_summary"
       => /\ Field(bep.doc, "targets") = DistinctLabels(bep.p.targets)
          /\ Field(bep.doc, "tests") = DistinctLabels(bep.p.test_results)
          /\ Field(bep.doc, "actions") = bep.p.action_count
          /\ Field(bep.doc, "actions") = ActionEvents(bep.fed)
          /\ Field(bep.doc, "has_resource_usage") = (bep.p.resource_series # <<>>)

\* the counts of the metadata of the graph document
MetadataCounts ==
    bep.op \in GraphNames
       => LET metadata == Field(bep.doc, "metadata")
          IN  /\ HasField(metadata, "totalTargets")
              /\ HasField(metadata, "totalTests")
              /\ HasField(metadata, "actionsSeen")
              /\ Field(metadata, "totalTargets") = DistinctLabels(bep.p.targets)
              /\ Field(metadata, "totalTests") = DistinctLabels(bep.p.test_results)
              /\ Field(metadata, "actionsSeen") = ActionEvents(bep.fed)

\* C23 (as stated): the summary reports the number of distinct target
\* labels, the number of distinct test-result labels, the action counter
\* (the number of action events processed) and whether the resource series
\* is non-empty; the metadata of the graph reports the same three counts as
\* totalTargets, totalTests and actionsSeen.
C23_SummaryCounts == SummaryCounts /\ MetadataCounts

\* s is t, or t with points appended
IsPrefix(s, t) == Len(s) <= Len(t) /\ SubSeq(t, 1, Len(s)) = s

\* the resource-usage document projects the series, point by point
ProjectsSeries ==
    bep.op = "export_resource_usage"
       => LET time == Field(bep.doc, "time")
              cpu == Field(bep.doc, "cpu")
              memory == Field(bep.doc, "memory")
              count == Field(bep.doc, "count")
              series == bep.p.resource_series
          IN  /\ Len(time) = count /\ Len(cpu) = count /\ Len(memory) = count
              /\ count = Len(series)
              /\ \A i \in 1..count :
                    /\ time[i] = series[i].time
                    /\ cpu[i] = series[i].cpu
                    /\ memory[i] = series[i].memory

\* C24: the resource-usage document holds three sequences of the length
\* count, the number of points, whose i-th entries are the fields of the
\* i-th point appended; an event appends at the end of the series and
\* changes no point that is there (arrival order).
C24_ParallelSequences ==
    /\ []ProjectsSeries
    /\ [][bep'.op = "process_event"
            => IsPrefix(bep.p.resource_series, bep'.p.resource_series)]_vars

\* a document of two points or more, the first with a later time than the
\* second: arrival order is not the order of the times
C24_Witness ==
    /\ bep.op = "export_resource_usage"
    /\ Field(bep.doc, "count") >= 2
    /\ bep.p.resource_series[1].time.t = "float"
    /\ bep.p.resource_series[2].time.t = "float"
    /\ bep.p.resource_series[1].time.v > bep.p.resource_series[2].time.v
    /\ Field(bep.doc, "time")[1] = bep.p.resource_series[1].time

\* the places of an attempt after parser.parse_stream has returned
AfterParse == {"put_summary", "put_graph", "put_resource_usage", "set_completed"}

\* C25: the aggregate of an attempt holds what was parsed of the stream of
\* its own file and nothing else, and an artifact in storage is made of the
\* stream of its own file alone.
C25_AggregateIsolation ==
    /\ \A a \in BagToSet(running) :
          /\ a.pc \notin AfterParse => a.parser = <<>>
          /\ a.pc \in AfterParse => a.parser = s3[RawKey(a.file_id)]
    /\ \A f \in Files, n \in ArtifactNames :
          ArtifactKey(f, n) \in DOMAIN s3
             => s3[ArtifactKey(f, n)] = <<n>> \o s3[RawKey(f)]

\* two attempts at work at once, for two files with different streams, both
\* past the parse, one a retry after a failed attempt that had written
\* artifacts, and an artifact of each file in storage
C25_Witness ==
    \E a, b \in BagToSet(running) :
        /\ a.file_id # b.file_id
        /\ a.pc \in AfterParse /\ b.pc \in AfterParse
        /\ a.parser # b.parser
        /\ a.log = <<"put_error">>
        /\ ArtifactKey(a.file_id, "summary.json") \in DOMAIN s3
        /\ ArtifactKey(b.file_id, "summary.json") \in DOMAIN s3

\* the number of attempts of the tasks of file_id at work in the pool
AtWork(file_id) ==
    LET attempts == {a \in BagToSet(running) : a.file_id = file_id}
        count == [a \in attempts |-> CopiesIn(a, running)]
    IN  Sum(count, attempts)

\* C26 (as stated): for every file_id the uploader sends at most one task,
\* whatever requests it is given, and no two attempts for one file_id are
\* at work at once.
C26_OneJobPerFile ==
    \A f \in Files :
        /\ sent[f] <= 1
        /\ AtWork(f) <= 1

\* the store after the calls us, each one step, one after the other
RECURSIVE Serial(_, _)
Serial(recs, us) ==
    IF us = <<>> THEN recs
    ELSE Serial(update_upload_status(recs, UpdatedFile, Head(us).status,
                                     Head(us).error_message, Head(us).output_location),
                Tail(us))

\* the orders of n calls
Orders(n) == {o \in [1..n -> 1..n] : \A i, j \in 1..n : o[i] = o[j] => i = j}

\* C27 (as stated): when the calls of update_upload_status that were made
\* have all returned, the record is the one that the calls, each an atomic
\* read-modify-write, leave in some order.
C27_AtomicUpdates ==
    calls.flight = {}
       => \E o \in Orders(Len(calls.done)) :
             records = Serial(calls.start, [i \in 1..Len(calls.done) |-> calls.done[o[i]]])

\* the keys of an id by kind, in the order of precedence
RecognizedKeys ==
    << {"targetCompleted"}, {"configuredTarget", "targetConfigured"},
       {"actionCompleted", "actionExecuted"}, {"testResult"}, {"progress"} >>

IdOfEvent(e) == get(e, "id", JDict(<<>>))

\* the kinds whose keys the id of the event holds
Kinds(e) ==
    IF IdOfEvent(e).t # "dict" THEN {}
    ELSE {k \in DOMAIN RecognizedKeys : DOMAIN IdOfEvent(e).v \cap RecognizedKeys[k] # {}}

Min(S) == CHOOSE x \in S : \A y \in S : x <= y

\* what the handler of the kind k does to the object b on the event e
Handler(b, k, e) ==
    LET id == IdOfEvent(e)
        service == b.class = "service"
    IN  CASE k = 1 -> IF service THEN handle_target_completed(b.p, e, id.v["targetCompleted"])
                      ELSE _handle_target_completed(b.p, e, id.v["targetCompleted"])
          [] k = 2 -> LET payload == Or(get(id, "configuredTarget", JNull),
                                        get(id, "targetConfigured", JNull))
                      IN  IF service THEN handle_target_configured(b.p, e, payload)
                          ELSE _handle_target_configured(b.p, e, payload)
          [] k = 3 -> IF service THEN handle_action(b.p, e) ELSE _handle_action(b.p, e)
          [] k = 4 -> IF service THEN handle_test_result(b.p, e, id.v["testResult"])
                      ELSE _handle_test_result(b.p, e, id.v["testResult"])
          [] k = 5 -> IF service THEN handle_progress(b.p, e) ELSE _handle_progress(b.p, e)

\* C28: on an event whose id holds the keys of several kinds, targets, test
\* results and action count change as the handler of the kind of highest
\* precedence prescribes, and as no other handler does.
C28_FirstMatchWins ==
    [][\A i \in 1..Len(Events) :
         (Processes(Events[i]) /\ Cardinality(Kinds(Events[i])) >= 2)
            => LET h == Handler(bep, Min(Kinds(Events[i])), Events[i])
               IN  /\ bep'.p.targets = h.p.targets
                   /\ bep'.p.test_results = h.p.test_results
                   /\ bep'.p.action_count = h.p.action_count]_vars

\* the event with the keys of four kinds was processed on a new object: the
\* target of its target-completed key is there with its status, and there
\* is no other target, no test result and no action counted
C28_Witness ==
    /\ bep.op = "process_event"
    /\ Len(bep.fed) = 1
    /\ Kinds(bep.fed[1]) = {1, 2, 3, 4}
    /\ bep.exc = None
    /\ Len(bep.p.targets) = 1
    /\ TargetOf(bep.p, LabelL).status = "success"
    /\ bep.p.test_results = <<>>
    /\ bep.p.action_count = 0

\* the point this step has appended
Last(seq) == seq[Len(seq)]

\* C29 (as stated): the point an event appends holds, as time, cpu and
\* memory, the first numeric value among the candidates of each, in their
\* order; a candidate that is no number is passed over for the next, and a
\* numeric candidate counts whatever its value, 0 included.
C29_ValueRecovery ==
    [][\A i \in 1..Len(Events) :
         (/\ Processes(Events[i]) /\ ReachesExtraction(Events[i])
          /\ Len(bep'.p.resource_series) = Len(bep.p.resource_series) + 1)
            => /\ Last(bep'.p.resource_series).time = TimeCarried(Events[i])
               /\ Last(bep'.p.resource_series).cpu = CpuCarried(Events[i])
               /\ Last(bep'.p.resource_series).memory = MemoryCarried(Events[i])]_vars

\* the aggregate of the whole stream of an attempt
WholeAggregate(a) == ParsedInto(<<>>, s3[a.s3_key])

\* this step writes the artifact name of file_id
Writes(file_id, name) ==
    /\ ArtifactKey(file_id, name) \in DOMAIN s3'
    /\ ArtifactKey(file_id, name) \in DOMAIN s3
          => s3'[ArtifactKey(file_id, name)] # s3[ArtifactKey(file_id, name)]

\* C30: an attempt that has left the parse holds the aggregate of its whole
\* stream; an artifact is written only by a step of such an attempt, from
\* that aggregate; and the step in which the parse ends an attempt (a read
\* that raised part-way, or a fatal error) writes nothing to storage.
C30_NoPartialExport ==
    /\ [](\A a \in BagToSet(running) :
            a.pc \in AfterParse => a.parser = WholeAggregate(a))
    /\ [][/\ \A f \in Files, n \in ArtifactNames :
               Writes(f, n)
                  => \E a \in BagToSet(running) :
                        /\ a.file_id = f /\ a.pc \in AfterParse /\ Steps(a)
                        /\ s3'[ArtifactKey(f, n)] = Export(n, WholeAggregate(a))
          /\ \A a \in BagToSet(running) :
               (a.pc = "parse_stream" /\ Ends(a)) => s3' = s3]_vars

\* the only job of a file has ended FAILED with the error of a read, after
\* both of its attempts lost the stream part-way, and no artifact of the
\* file is in storage
C30_Witness ==
    \E f \in DOMAIN records :
        /\ records[f].status = FAILED
        /\ records[f].error_message = Some(ReadError)
        /\ sent[f] = 1
        /\ ~Outstanding(f)
        /\ \A n \in ArtifactNames : ArtifactKey(f, n) \notin DOMAIN s3

----------------------------------------------------------------------------
(* C31..C39 *)

\* the three artifacts of file_id are in storage
AllArtifacts(file_id) ==
    \A n \in ArtifactNames : ArtifactKey(file_id, n) \in DOMAIN s3

\* C31: a record is set COMPLETED only in a state where the three artifacts
\* of its file have been written, so a COMPLETED record has summary.json,
\* graph.json and resource-usage.json under processed/{file_id}/, and the
\* keys GET /upload/artifacts answers with for it are those, all in storage.
C31_WriteBeforeComplete ==
    /\ [](\A f \in DOMAIN records :
            records[f].status = COMPLETED
               => /\ AllArtifacts(f)
                  /\ get_artifact_urls(f).code = 200
                  /\ get_artifact_urls(f).keys = {ArtifactKey(f, n) : n \in ArtifactNames})
    /\ [][\A f \in DOMAIN records :
            (records'[f].status = COMPLETED /\ records[f].status # COMPLETED)
               => AllArtifacts(f)]_vars

\* C31 witness: a job has completed at its first attempt: the record is
\* COMPLETED, nothing of the job is left, the three artifacts are there.
C31_Witness ==
    \E f \in DOMAIN records :
        /\ records[f].status = COMPLETED
        /\ sent[f] = 1
        /\ ~Outstanding(f)
        /\ AllArtifacts(f)

\* all there is of file_id in the stores: its record, its raw object, its
\* artifacts, its task messages and its attempts at work
OfFile(file_id, recs, objects, msgs, attempts) ==
    [record |-> IF file_id \in DOMAIN recs THEN Some(recs[file_id]) ELSE None,
     objects |-> [k \in {k \in DOMAIN objects :
                            \/ k = <<"bep-files/", file_id, ".json">>
                            \/ \E n \in ArtifactNames : k = ArtifactKey(file_id, n)} |->
                     objects[k]],
     queue |-> [m \in {m \in BagToSet(msgs) : m.file_id = file_id} |-> CopiesIn(m, msgs)],
     running |-> [a \in {a \in BagToSet(attempts) : a.file_id = file_id} |->
                     CopiesIn(a, attempts)]]

\* this step is a step of a job of file_id: a worker takes a task message of
\* it, or an attempt of it steps
JobSteps(file_id) ==
    \/ \E m \in BagToSet(queue) :
          m.file_id = file_id /\ CopiesIn(m, queue') < CopiesIn(m, queue)
    \/ \E a \in BagToSet(running) : a.file_id = file_id /\ Steps(a)

\* C32: a step of a job of file_id A leaves everything of every other
\* file_id B as it is: B's record, B's raw object and the keys under
\* processed/{B}/, B's task messages and B's attempts.  (So the steps of A's
\* job can be taken out of any interleaving without changing what B's job
\* does and leaves.)
C32_DistinctJobsDoNotInterfere ==
    [][\A A \in Files, B \in Files :
         (A # B /\ JobSteps(A))
            => OfFile(B, records', s3', queue', running')
                   = OfFile(B, records, s3, queue, running)]_vars

\* C32 witness: two jobs of two files have run side by side: one is about to
\* set its record COMPLETED while the other has written its first artifact.
C32_Witness ==
    \E a \in BagToSet(running), b \in BagToSet(running) :
        /\ a.file_id # b.file_id
        /\ a.pc = "set_completed"
        /\ b.pc = "put_graph"
        /\ AllArtifacts(a.file_id)
        /\ ArtifactKey(b.file_id, "summary.json") \in DOMAIN s3

\* two target collections hold the same targets in the same order
SameTargets(s, t) ==
    /\ Len(s) = Len(t)
    /\ \A i \in 1..Len(s) :
          /\ JEq(s[i].label, t[i].label)
          /\ s[i].status = t[i].status
          /\ JEq(s[i].kind, t[i].kind)
          /\ s[i].dependencies = t[i].dependencies

\* C33: a target-completed event for label L changes, of the targets, the
\* test results and the action counter, only the status of Target[L]: the
\* targets after it are those before it with Target[L] (made when there was
\* none) given a status, its kind and dependencies and every other target as
\* they were, and the test results and the action counter are unchanged.
C33_TargetCompletedFrame ==
    [][\A i \in 1..Len(Events) : \A L \in Labels :
         (Processes(Events[i]) /\ IsTargetCompleted(Events[i], L))
            => /\ \E s \in {"success", "failure"} :
                     SameTargets(bep'.p.targets,
                                 Store(bep.p.targets,
                                       [TargetOf(bep.p, L) EXCEPT !.status = s]))
               /\ bep'.p.test_results = bep.p.test_results
               /\ bep'.p.action_count = bep.p.action_count]_vars

\* C33 witness: a target-configured event has recorded a kind and a
\* dependency of L, and a target-completed event for L came after it: the
\* target has its status, and still that kind and that dependency.
C33_Witness ==
    /\ \E i, j \in DOMAIN bep.fed :
          /\ i < j
          /\ IsTargetConfigured(bep.fed[i], LabelL)
          /\ IsTargetCompleted(bep.fed[j], LabelL)
    /\ bep.op = "process_event"
    /\ HasTarget(bep.p, LabelL)
    /\ TargetOf(bep.p, LabelL).status = "success"
    /\ TargetOf(bep.p, LabelL).kind.t = "str"
    /\ TargetOf(bep.p, LabelL).dependencies # {}

\* this step is a call on the parser object other than its construction
ParserCall == bep'.op # "__init__" /\ bep.class # "none"

\* C34: a call of process_event adds 1 to the action counter when the event
\* is classified as an action and leaves it as it is when not, and on an
\* action event targets and test results stay as they are; no call on the
\* object of a job lowers the counter, which is the number of action events
\* the object was given.
C34_ActionCounter ==
    /\ [](bep.class # "none" => bep.p.action_count = ActionEvents(bep.fed))
    /\ [][/\ \A i \in 1..Len(Events) :
                Processes(Events[i])
                   => /\ bep'.p.action_count
                            = bep.p.action_count
                                 + (IF IsActionEvent(Events[i]) THEN 1 ELSE 0)
                      /\ IsActionEvent(Events[i])
                            => /\ SameTargets(bep'.p.targets, bep.p.targets)
                               /\ bep'.p.test_results = bep.p.test_results
          /\ ParserCall => bep'.p.action_count >= bep.p.action_count]_vars

\* C34 witness: the object holds a target and was given three events, the
\* first no action and two of them actions: the counter is 2.
C34_Witness ==
    /\ Len(bep.fed) = 3
    /\ ~IsActionEvent(bep.fed[1])
    /\ ActionEvents(bep.fed) = 2
    /\ bep.p.action_count = 2
    /\ Len(bep.p.targets) = 1

\* C35: a call on the object of a job keeps every target there is: after
\* it there is a target of the same label, with a status other than
\* "unknown" when it had one, and with a kind when it had one.  So a label
\* that a target-completed event named has its target, with a status, ever
\* after.
C35_TargetsOnlyGrow ==
    /\ [](\A L \in Labels :
            (\E i \in DOMAIN bep.fed : IsTargetCompleted(bep.fed[i], L))
               => HasTarget(bep.p, L) /\ TargetOf(bep.p, L).status # "unknown")
    /\ [][ParserCall
             => \A i \in 1..Len(bep.p.targets) :
                   LET t == bep.p.targets[i]
                       after == Find(bep'.p.targets, t.label)
                   IN  /\ after # {}
                       /\ \A j \in after :
                             /\ t.status # "unknown"
                                   => bep'.p.targets[j].status # "unknown"
                             /\ t.kind.t # "null"
                                   => bep'.p.targets[j].kind.t # "null"]_vars

\* C35 witness: a target-configured event gave L a kind, a target-completed
\* event a status, and a target-configured event without a kind came last
\* (the dependencies are those of two different events): L is there with
\* its status and its kind.
C35_Witness ==
    /\ Len(bep.fed) = 3
    /\ IsTargetConfigured(bep.fed[1], LabelL)
    /\ IsTargetCompleted(bep.fed[2], LabelL)
    /\ IsTargetConfigured(bep.fed[3], LabelL)
    /\ "configured" \in DOMAIN bep.fed[3].v
    /\ DOMAIN bep.fed[3].v["configured"].v \cap {"targetKind", "kind"} = {}
    /\ bep.exc = None
    /\ HasTarget(bep.p, LabelL)
    /\ TargetOf(bep.p, LabelL).status = "success"
    /\ TargetOf(bep.p, LabelL).kind.t = "str"
    /\ Cardinality(TargetOf(bep.p, LabelL).dependencies) = 2

\* the members of a sequence of dict literals whose field key is value
Having(seq, key, value) == SelectSeq(seq, LAMBDA x : Field(x, key) = value)

\* C36: the graph document holds one node of type "target" per Target and
\* one of type "test" per TestResult and no other node; the test node of a
\* TestResult has status "passed" or "failed" by its passed flag; and there
\* is one edge of type "test" per TestResult, from its test node to the
\* target node of the same label.
C36_GraphNodesAndTestEdges ==
    bep.op \in GraphNames
       => LET nodes == Field(bep.doc, "nodes")
              targetNodes == NodesOfType(bep.doc, "target")
              testNodes == NodesOfType(bep.doc, "test")
              testEdges == EdgesOfType(bep.doc, "test")
          IN  /\ Len(nodes) = Len(bep.p.targets) + Len(bep.p.test_results)
              /\ Len(targetNodes) = Len(bep.p.targets)
              /\ Len(testNodes) = Len(bep.p.test_results)
              /\ Len(testEdges) = Len(bep.p.test_results)
              /\ \A i \in 1..Len(bep.p.targets) :
                    Len(Having(targetNodes, "originalId", bep.p.targets[i].label.v)) = 1
              /\ \A i \in 1..Len(bep.p.test_results) :
                    LET r == bep.p.test_results[i]
                        ofTest == Having(testNodes, "originalId", r.label.v)
                        ofTarget == Having(targetNodes, "originalId", r.label.v)
                    IN  /\ Len(ofTest) = 1
                        /\ Field(ofTest[1], "status")
                              = IF r.passed THEN "passed" ELSE "failed"
                        /\ Len(ofTarget) = 1
                        /\ Len(Having(testEdges, "source", Field(ofTest[1], "id"))) = 1
                        /\ Field(Having(testEdges, "source", Field(ofTest[1], "id"))[1],
                                 "target") = Field(ofTarget[1], "id")

\* C36 witness: the graph of an aggregate with two targets and the failed
\* test result of one of them: three nodes, one of them a test node.
C36_Witness ==
    /\ bep.op \in GraphNames
    /\ Len(bep.p.targets) = 2
    /\ Len(bep.p.test_results) = 1
    /\ ~bep.p.test_results[1].passed
    /\ Len(Field(bep.doc, "nodes")) = 3
    /\ Len(EdgesOfType(bep.doc, "test")) = 1

\* C37: every label that has a TestResult in the aggregate has a Target
\* there, and in a graph document every edge of type "test" ends at the id
\* of a node of type "target".
C37_TestEdgesNeverDangle ==
    /\ \A i \in 1..Len(bep.p.test_results) :
          Find(bep.p.targets, bep.p.test_results[i].label) # {}
    /\ bep.op \in GraphNames
          => \A i \in 1..Len(EdgesOfType(bep.doc, "test")) :
                Having(NodesOfType(bep.doc, "target"), "id",
                       Field(EdgesOfType(bep.doc, "test")[i], "target")) # <<>>

\* C37 witness: the only events given were test results for L, and the
\* graph was asked for: L has a target node, made by the test-result
\* handler, and the test edge ends at it.
C37_Witness ==
    /\ bep.op \in GraphNames
    /\ Len(bep.fed) >= 1
    /\ \A i \in DOMAIN bep.fed : IsTestResult(bep.fed[i], LabelL)
    /\ Len(bep.p.test_results) = 1
    /\ Len(NodesOfType(bep.doc, "target")) = 1
    /\ Len(EdgesOfType(bep.doc, "test")) = 1
    /\ Field(EdgesOfType(bep.doc, "test")[1], "target")
          = Field(NodesOfType(bep.doc, "target")[1], "id")

\* C38 (as stated): the ids of the nodes of a graph document are pairwise
\* different.
C38_NodeIdsUnique ==
    bep.op \in GraphNames
       => LET nodes == Field(bep.doc, "nodes")
          IN  \A i, j \in 1..Len(nodes) :
                 i # j => Field(nodes[i], "id") # Field(nodes[j], "id")

\* the id payload the handler of the event is given: that of its kind of
\* highest precedence, for the kinds that name a label
LabelPayload(e) ==
    LET id == IdOfEvent(e)
        k == Min(Kinds(e))
    IN  CASE k = 1 -> id.v["targetCompleted"]
          [] k = 2 -> Or(get(id, "configuredTarget", JNull), get(id, "targetConfigured", JNull))
          [] k = 4 -> id.v["testResult"]

\* the event is target-completed, target-configured or test-result and its
\* id payload has no label, or an empty one
HasNoLabel(e) ==
    /\ e.t = "dict"
    /\ Kinds(e) # {}
    /\ Min(Kinds(e)) \in {1, 2, 4}
    /\ LabelPayload(e).t = "dict"
    /\ LET label == get(LabelPayload(e), "label", JNull)
       IN  label.t = "null" \/ (label.t = "str" /\ label.v = <<>>)

\* the key is a non-empty label
NonEmptyLabel(label) == label.t = "str" /\ Len(label.v) > 0

\* C39: every key of targets and of test_results is a non-empty label, and
\* a target-completed, target-configured or test-result event whose id
\* payload has no label or an empty one leaves targets and test results as
\* they are.
C39_KeysAreNonEmptyLabels ==
    /\ [](/\ \A i \in 1..Len(bep.p.targets) : NonEmptyLabel(bep.p.targets[i].label)
          /\ \A i \in 1..Len(bep.p.test_results) :
                NonEmptyLabel(bep.p.test_results[i].label))
    /\ [][\A i \in 1..Len(Events) :
            (Processes(Events[i]) /\ HasNoLabel(Events[i]))
               => /\ SameTargets(bep'.p.targets, bep.p.targets)
                  /\ bep'.p.test_results = bep.p.test_results]_vars

\* C39 witness: a test result for L was recorded, with its target, and two
\* events of different kinds without a label came after it: still that one
\* target and that one test result.
C39_Witness ==
    /\ Len(bep.fed) = 3
    /\ IsTestResult(bep.fed[1], LabelL)
    /\ HasNoLabel(bep.fed[2])
    /\ HasNoLabel(bep.fed[3])
    /\ Min(Kinds(bep.fed[2])) # Min(Kinds(bep.fed[3]))
    /\ bep.exc = None
    /\ Len(bep.p.targets) = 1
    /\ Len(bep.p.test_results) = 1
    /\ HasTarget(bep.p, LabelL)

====
